---- MODULE Spec2Model ----
(***************************************************************************)
(* Model of the AI Messenger chat client (Bulat95/aim).                    *)
(*                                                                         *)
(* The repository holds two generations of the same program:               *)
(*   MessengerApp + MessengerAPI   (messenger_app.py, api_handler.py)      *)
(*   MainWindow: ChatArea + ChatManager + APIManager (ui/, core/)          *)
(* Both are modelled; the variables cl_impl / d_impl / p_impl say which    *)
(* one a behaviour is about.  The specifications share the variables:      *)
(*   SpecClean     the reply normalizer alone                              *)
(*   SpecDispatch  send_message of a dispatcher alone                      *)
(*   Spec          the program in use: chats opened, messages submitted,   *)
(*                 worker threads answering                                *)
(*   SpecPrompt    build_prompt alone                                      *)
(*   SpecStore     a chat appended to, saved, and loaded by the next run   *)
(*   SpecTemplate  build_prompt for group chats and group templates        *)
(*   SpecLoad      the personas loaded from characters/ at start           *)
(*   SpecGroups    groups loaded and created                               *)
(*   SpecFair      Spec with every worker thread scheduled                 *)
(*   SpecRace      the workers of two turns on one chat, step by step      *)
(*                                                                         *)
(* Text is a sequence of one-character strings.  A Cyrillic character is   *)
(* written "uXXXX" (its code point), so that it differs from every Latin   *)
(* character, as it does in Python.                                         *)
(***************************************************************************)
EXTENDS Integers, Sequences, FiniteSets, TLC

VARIABLES
    \* -- the normalizer on its own (SpecClean)
    cl_impl,    \* which cleaner is applied: "MessengerAPI" or "APIManager"
    cl_raw,     \* the raw provider text handed to the cleaner
    cl_outs,    \* results of the successive applications of the cleaner
    \* -- the dispatcher (SpecDispatch, Spec)
    d_impl,     \* which dispatcher: "MessengerAPI" or "APIManager"
    d_config,   \* self.config after load_config
    d_provider, \* APIManager.current_provider ("" is None)
    d_model,    \* APIManager.current_model ("" is None)
    d_last,     \* the last send_message call: its provider and its outcome
    \* -- the program in use (Spec)
    characters,         \* persona table: id -> persona
    groups,             \* group table: id -> group
    chats,              \* chat table in memory: chat id -> messages
    disk,               \* chat files: chat id -> file contents
    current_chat_id,    \* the open chat ("" is None)
    typing_indicators,  \* MessengerApp.typing_indicators
    workers,            \* the worker thread of each submitted message
    now,                \* the clock, in milliseconds
    \* -- build_prompt on its own (SpecPrompt)
    p_impl,     \* whose build_prompt: "MessengerApp" or "ChatManager"
    p_msgs,     \* the messages of the chat
    p_out,      \* the prompt built
    \* -- the conversation store across a restart (SpecStore)
    s_pc,       \* "fresh", "appended" or "reloaded"
    s_mem,      \* the chat in memory right after the append
    s_msg,      \* the message appended
    \* -- loading the personas at start (SpecLoad)
    char_files, \* the entries of characters/, in the order they are listed
    load_pc,    \* "start", "loaded", or "raised" when the loader raised
    group_files, \* the files of groups/: group id -> group record
    \* -- two turns on one chat at once (SpecRace)
    racers      \* the worker thread of each turn: position, message, file

cleanVars == <<cl_impl, cl_raw, cl_outs>>

dispVars == <<d_impl, d_config, d_provider, d_model, d_last>>

turnVars ==
    <<characters, groups, chats, disk, current_chat_id, typing_indicators,
      workers, now>>

promptVars == <<p_impl, p_msgs, p_out>>

storeVars == <<s_pc, s_mem, s_msg>>

loadVars == <<char_files, load_pc, group_files>>

raceVars == <<racers>>

vars ==
    <<cleanVars, dispVars, turnVars, promptVars, storeVars, loadVars, raceVars>>

(***************************************************************************)
(* Bounds of the model.                                                    *)
(***************************************************************************)
MaxPieces == 3

\* Messages submitted (worker threads started) in one run.
MaxTurns == 1

\* Last value of the millisecond clock.
MaxClock == 1

\* Longest chat a prompt is built from.
MaxHist == 17

\* Longest chat a message is appended to before a restart.
MaxStored == 101

\* Entries of the characters/ folder.
MaxFolders == 3

\* Half seconds of the clock while groups are created.
MaxHalfSeconds == 3

\* Worker threads recording their replies at the same time.
MaxRacers == 2

\* Milliseconds of the clock while they do.
MaxRaceClock == 2

(***************************************************************************)
(* Python string primitives on character sequences.                        *)
(***************************************************************************)

\* str.strip() with no argument removes leading and trailing whitespace.
Whitespace == {" ", "\t", "\n"}

\* text[i : i + len(sub)] == sub   (1-based i)
MatchAt(text, sub, i) ==
    /\ i >= 1
    /\ i + Len(sub) - 1 <= Len(text)
    /\ \A k \in 1..Len(sub) : text[i + k - 1] = sub[k]

\* text.find(sub) + 1: the 1-based start of the first occurrence, 0 if none.
Find(text, sub) ==
    LET hits == {i \in 1..(Len(text) - Len(sub) + 1) : MatchAt(text, sub, i)}
    IN  IF hits = {} THEN 0 ELSE CHOOSE i \in hits : \A j \in hits : i <= j

\* sub in text
Contains(text, sub) == Find(text, sub) # 0

\* text.split(tag)[0]: everything before the first occurrence of tag.
SplitFirst(text, tag) ==
    LET p == Find(text, tag)
    IN  IF p = 0 THEN text ELSE SubSeq(text, 1, p - 1)

\* text.strip()
Strip(text) ==
    LET keep == {i \in 1..Len(text) : text[i] \notin Whitespace}
    IN  IF keep = {} THEN <<>>
        ELSE LET lo == CHOOSE i \in keep : \A j \in keep : i <= j
                 hi == CHOOSE i \in keep : \A j \in keep : i >= j
             IN  SubSeq(text, lo, hi)

(***************************************************************************)
(* Response normalizer: MessengerAPI.clean_text and APIManager._clean_text *)
(***************************************************************************)

\* cut_tags = ["СТОП", "INST", "Human:", "Assistant:", "###"]
cut_tags ==
    << <<"u0421", "u0422", "u041E", "u041F">>,
       <<"I", "N", "S", "T">>,
       <<"H", "u", "m", "a", "n", ":">>,
       <<"A", "s", "s", "i", "s", "t", "a", "n", "t", ":">>,
       <<"#", "#", "#">> >>

\* "Ответ модели оказался пустым."
EmptyResponseText ==
    <<"u041E", "u0442", "u0432", "u0435", "u0442", " ", "u043C", "u043E",
    "u0434", "u0435", "u043B", "u0438", " ", "u043E", "u043A", "u0430",
    "u0437", "u0430", "u043B", "u0441", "u044F", " ", "u043F", "u0443",
    "u0441", "u0442", "u044B", "u043C", ".">>

\* "Ответ модели оказался пустым после очистки."
EmptyAfterCleaningText ==
    <<"u041E", "u0442", "u0432", "u0435", "u0442", " ", "u043C", "u043E",
    "u0434", "u0435", "u043B", "u0438", " ", "u043E", "u043A", "u0430",
    "u0437", "u0430", "u043B", "u0441", "u044F", " ", "u043F", "u0443",
    "u0441", "u0442", "u044B", "u043C", " ", "u043F", "u043E", "u0441",
    "u043B", "u0435", " ", "u043E", "u0447", "u0438", "u0441", "u0442",
    "u043A", "u0438", ".">>

\* "Ответ пустой"
AnswerEmptyText ==
    <<"u041E", "u0442", "u0432", "u0435", "u0442", " ", "u043F", "u0443",
    "u0441", "u0442", "u043E", "u0439">>

\* A cut loop that leaves the loop at the first tag it finds.
RECURSIVE CutLoopBreak(_, _, _)
CutLoopBreak(text, tags, i) ==
    IF i > Len(tags) THEN text
    ELSE IF Contains(text, tags[i]) THEN SplitFirst(text, tags[i])
    ELSE CutLoopBreak(text, tags, i + 1)

\* for tag in tags: if tag in text: text = text.split(tag)[0]
RECURSIVE CutLoop(_, _, _)
CutLoop(text, tags, i) ==
    IF i > Len(tags) THEN text
    ELSE CutLoop(IF Contains(text, tags[i]) THEN SplitFirst(text, tags[i])
                 ELSE text,
                 tags, i + 1)

\* A cleaner that strips before it cuts instead of after.
CleanStripFirst(text, tags, emptyMark, blankMark) ==
    IF text = <<>> THEN emptyMark
    ELSE LET t == CutLoop(Strip(text), tags, 1)
         IN  IF t # <<>> THEN t ELSE blankMark

\* The body of clean_text for a given tag list and the two marker texts:
\*   if not text: return <empty marker>
\*   <cut loop>; text = text.strip(); return text if text else <blank marker>
CleanWith(text, tags, emptyMark, blankMark) ==
    IF text = <<>> THEN emptyMark
    ELSE LET t == Strip(CutLoop(text, tags, 1))
         IN  IF t # <<>> THEN t ELSE blankMark

\* MessengerAPI.clean_text
clean_text(text) ==
    CleanWith(text, cut_tags, EmptyResponseText, EmptyAfterCleaningText)

\* APIManager._clean_text
_clean_text(text) ==
    CleanWith(text, cut_tags, AnswerEmptyText, AnswerEmptyText)

Cleaners == {"MessengerAPI", "APIManager"}

Clean(impl, text) ==
    IF impl = "MessengerAPI" THEN clean_text(text) ELSE _clean_text(text)

(***************************************************************************)
(* Raw texts: up to MaxPieces pieces, chosen so that markers occur whole,  *)
(* in parts, doubled and next to whitespace.                               *)
(***************************************************************************)
Pieces ==
    { <<" ">>, <<"H", "i">>, <<"#">>, <<"#", "#", "#">>,
      <<"I", "N">>, <<"S", "T">>,
      <<"H", "u", "m", "a", "n", ":">>,
      <<"A", "s", "s", "i", "s", "t", "a", "n", "t", ":">>,
      <<"u0421", "u0422", "u041E", "u041F">> }

RECURSIVE TextsOf(_)
TextsOf(n) ==
    IF n = 0 THEN {<<>>}
    ELSE LET shorter == TextsOf(n - 1)
         IN  shorter \cup {t \o p : t \in shorter, p \in Pieces}

RawTexts == TextsOf(MaxPieces)

(***************************************************************************)
(* Texts the dispatchers return (each is the Python literal at the place   *)
(* named in the comment above it).                                         *)
(***************************************************************************)

\* api_handler.py:60  "Ошибка: Провайдер '"
T_ProviderNotFoundPre ==
    <<"u041E", "u0448", "u0438", "u0431", "u043A", "u0430", ":", " ",
    "u041F", "u0440", "u043E", "u0432", "u0430", "u0439", "u0434", "u0435",
    "u0440", " ", "'">>

\* api_handler.py:60  "' не найден в конфигурации."
T_ProviderNotFoundPost ==
    <<"'", " ", "u043D", "u0435", " ", "u043D", "u0430", "u0439", "u0434",
    "u0435", "u043D", " ", "u0432", " ", "u043A", "u043E", "u043D",
    "u0444", "u0438", "u0433", "u0443", "u0440", "u0430", "u0446", "u0438",
    "u0438", ".">>

\* api_handler.py:80  "' не поддерживается."
T_NotSupportedPost ==
    <<"'", " ", "u043D", "u0435", " ", "u043F", "u043E", "u0434", "u0434",
    "u0435", "u0440", "u0436", "u0438", "u0432", "u0430", "u0435", "u0442",
    "u0441", "u044F", ".">>

\* api_handler.py:83, api_manager.py:64,116  "Ошибка API: "
T_ApiError ==
    <<"u041E", "u0448", "u0438", "u0431", "u043A", "u0430", " ", "A", "P",
    "I", ":", " ">>

\* api_handler.py:104  "Ошибка: Библиотека 'anthropic' не установлена. Выполните: pip install anthropic"
T_NoAnthropic ==
    <<"u041E", "u0448", "u0438", "u0431", "u043A", "u0430", ":", " ",
    "u0411", "u0438", "u0431", "u043B", "u0438", "u043E", "u0442", "u0435",
    "u043A", "u0430", " ", "'", "a", "n", "t", "h", "r", "o", "p", "i",
    "c", "'", " ", "u043D", "u0435", " ", "u0443", "u0441", "u0442",
    "u0430", "u043D", "u043E", "u0432", "u043B", "u0435", "u043D", "u0430",
    ".", " ", "u0412", "u044B", "u043F", "u043E", "u043B", "u043D",
    "u0438", "u0442", "u0435", ":", " ", "p", "i", "p", " ", "i", "n", "s",
    "t", "a", "l", "l", " ", "a", "n", "t", "h", "r", "o", "p", "i", "c">>

\* api_handler.py:107  "Ошибка: API-ключ для Claude не указан."
T_NoClaudeKey ==
    <<"u041E", "u0448", "u0438", "u0431", "u043A", "u0430", ":", " ", "A",
    "P", "I", "-", "u043A", "u043B", "u044E", "u0447", " ", "u0434",
    "u043B", "u044F", " ", "C", "l", "a", "u", "d", "e", " ", "u043D",
    "u0435", " ", "u0443", "u043A", "u0430", "u0437", "u0430", "u043D",
    ".">>

\* api_handler.py:122  "Ошибка: Claude вернул пустой ответ."
T_ClaudeEmpty ==
    <<"u041E", "u0448", "u0438", "u0431", "u043A", "u0430", ":", " ", "C",
    "l", "a", "u", "d", "e", " ", "u0432", "u0435", "u0440", "u043D",
    "u0443", "u043B", " ", "u043F", "u0443", "u0441", "u0442", "u043E",
    "u0439", " ", "u043E", "u0442", "u0432", "u0435", "u0442", ".">>

\* api_handler.py:125  "Ошибка API Claude: "
T_ApiClaude ==
    <<"u041E", "u0448", "u0438", "u0431", "u043A", "u0430", " ", "A", "P",
    "I", " ", "C", "l", "a", "u", "d", "e", ":", " ">>

\* api_handler.py:144  "Ошибка: Библиотека 'google-generativeai' не установлена. Выполните: pip install google-generativeai"
T_NoGenai ==
    <<"u041E", "u0448", "u0438", "u0431", "u043A", "u0430", ":", " ",
    "u0411", "u0438", "u0431", "u043B", "u0438", "u043E", "u0442", "u0435",
    "u043A", "u0430", " ", "'", "g", "o", "o", "g", "l", "e", "-", "g",
    "e", "n", "e", "r", "a", "t", "i", "v", "e", "a", "i", "'", " ",
    "u043D", "u0435", " ", "u0443", "u0441", "u0442", "u0430", "u043D",
    "u043E", "u0432", "u043B", "u0435", "u043D", "u0430", ".", " ",
    "u0412", "u044B", "u043F", "u043E", "u043B", "u043D", "u0438", "u0442",
    "u0435", ":", " ", "p", "i", "p", " ", "i", "n", "s", "t", "a", "l",
    "l", " ", "g", "o", "o", "g", "l", "e", "-", "g", "e", "n", "e", "r",
    "a", "t", "i", "v", "e", "a", "i">>

\* api_handler.py:147  "Ошибка: API-ключ для Gemini не указан."
T_NoGeminiKey ==
    <<"u041E", "u0448", "u0438", "u0431", "u043A", "u0430", ":", " ", "A",
    "P", "I", "-", "u043A", "u043B", "u044E", "u0447", " ", "u0434",
    "u043B", "u044F", " ", "G", "e", "m", "i", "n", "i", " ", "u043D",
    "u0435", " ", "u0443", "u043A", "u0430", "u0437", "u0430", "u043D",
    ".">>

\* api_handler.py:166  "Ошибка: Gemini вернул неожиданный формат ответа."
T_GeminiFormat ==
    <<"u041E", "u0448", "u0438", "u0431", "u043A", "u0430", ":", " ", "G",
    "e", "m", "i", "n", "i", " ", "u0432", "u0435", "u0440", "u043D",
    "u0443", "u043B", " ", "u043D", "u0435", "u043E", "u0436", "u0438",
    "u0434", "u0430", "u043D", "u043D", "u044B", "u0439", " ", "u0444",
    "u043E", "u0440", "u043C", "u0430", "u0442", " ", "u043E", "u0442",
    "u0432", "u0435", "u0442", "u0430", ".">>

\* api_handler.py:169  "Ошибка API Gemini: "
T_ApiGemini ==
    <<"u041E", "u0448", "u0438", "u0431", "u043A", "u0430", " ", "A", "P",
    "I", " ", "G", "e", "m", "i", "n", "i", ":", " ">>

\* api_handler.py:209  "Ошибка API OpenRouter: "
T_ApiOpenRouter ==
    <<"u041E", "u0448", "u0438", "u0431", "u043A", "u0430", " ", "A", "P",
    "I", " ", "O", "p", "e", "n", "R", "o", "u", "t", "e", "r", ":", " ">>

\* api_handler.py:211  "Ошибка: неверный формат ответа от OpenRouter."
T_OpenRouterFormat ==
    <<"u041E", "u0448", "u0438", "u0431", "u043A", "u0430", ":", " ",
    "u043D", "u0435", "u0432", "u0435", "u0440", "u043D", "u044B", "u0439",
    " ", "u0444", "u043E", "u0440", "u043C", "u0430", "u0442", " ",
    "u043E", "u0442", "u0432", "u0435", "u0442", "u0430", " ", "u043E",
    "u0442", " ", "O", "p", "e", "n", "R", "o", "u", "t", "e", "r", ".">>

\* api_handler.py:253  "Ошибка API Chutes: "
T_ApiChutes ==
    <<"u041E", "u0448", "u0438", "u0431", "u043A", "u0430", " ", "A", "P",
    "I", " ", "C", "h", "u", "t", "e", "s", ":", " ">>

\* api_handler.py:274  "Ошибка: Библиотека 'openai' не установлена. Выполните: pip install openai"
T_NoOpenai ==
    <<"u041E", "u0448", "u0438", "u0431", "u043A", "u0430", ":", " ",
    "u0411", "u0438", "u0431", "u043B", "u0438", "u043E", "u0442", "u0435",
    "u043A", "u0430", " ", "'", "o", "p", "e", "n", "a", "i", "'", " ",
    "u043D", "u0435", " ", "u0443", "u0441", "u0442", "u0430", "u043D",
    "u043E", "u0432", "u043B", "u0435", "u043D", "u0430", ".", " ",
    "u0412", "u044B", "u043F", "u043E", "u043B", "u043D", "u0438", "u0442",
    "u0435", ":", " ", "p", "i", "p", " ", "i", "n", "s", "t", "a", "l",
    "l", " ", "o", "p", "e", "n", "a", "i">>

\* api_handler.py:293  "Ошибка API DeepSeek: "
T_ApiDeepSeek ==
    <<"u041E", "u0448", "u0438", "u0431", "u043A", "u0430", " ", "A", "P",
    "I", " ", "D", "e", "e", "p", "S", "e", "e", "k", ":", " ">>

\* api_manager.py:45  "Ошибка: Провайдер или модель не выбраны"
T_NotSelected ==
    <<"u041E", "u0448", "u0438", "u0431", "u043A", "u0430", ":", " ",
    "u041F", "u0440", "u043E", "u0432", "u0430", "u0439", "u0434", "u0435",
    "u0440", " ", "u0438", "u043B", "u0438", " ", "u043C", "u043E",
    "u0434", "u0435", "u043B", "u044C", " ", "u043D", "u0435", " ",
    "u0432", "u044B", "u0431", "u0440", "u0430", "u043D", "u044B">>

\* api_manager.py:62  "Провайдер "
T_MgrProviderPre ==
    <<"u041F", "u0440", "u043E", "u0432", "u0430", "u0439", "u0434",
    "u0435", "u0440", " ">>

\* api_manager.py:62  " не поддерживается"
T_MgrNotSupportedPost ==
    <<" ", "u043D", "u0435", " ", "u043F", "u043E", "u0434", "u0434",
    "u0435", "u0440", "u0436", "u0438", "u0432", "u0430", "u0435", "u0442",
    "u0441", "u044F">>

\* api_manager.py:79  "Ошибка Claude: "
T_MgrClaude ==
    <<"u041E", "u0448", "u0438", "u0431", "u043A", "u0430", " ", "C", "l",
    "a", "u", "d", "e", ":", " ">>

\* api_manager.py:94  "Ошибка Gemini: "
T_MgrGemini ==
    <<"u041E", "u0448", "u0438", "u0431", "u043A", "u0430", " ", "G", "e",
    "m", "i", "n", "i", ":", " ">>

\* api_manager.py:133  "Ошибка DeepSeek: "
T_MgrDeepSeek ==
    <<"u041E", "u0448", "u0438", "u0431", "u043A", "u0430", " ", "D", "e",
    "e", "p", "S", "e", "e", "k", ":", " ">>

\* str(e) of the exceptions the transports raise.  The texts come from the
\* libraries, not from this repository; one representative each.
E_Transport == <<"t", "i", "m", "e", "o", "u", "t">>

E_KeyError == <<"'", "c", "h", "o", "i", "c", "e", "s", "'">>

E_IndexError ==
    <<"l", "i", "s", "t", " ", "i", "n", "d", "e", "x", " ", "o", "u", "t",
    " ", "o", "f", " ", "r", "a", "n", "g", "e">>

E_Import ==
    <<"N", "o", " ", "m", "o", "d", "u", "l", "e", " ", "n", "a", "m", "e",
    "d", " ", "'", "s", "d", "k", "'">>

\* `provider not in None`
E_NoneNotIterable ==
    <<"a", "r", "g", "u", "m", "e", "n", "t", " ", "o", "f", " ", "t", "y",
    "p", "e", " ", "'", "N", "o", "n", "e", "T", "y", "p", "e", "'", " ",
    "i", "s", " ", "n", "o", "t", " ", "i", "t", "e", "r", "a", "b", "l",
    "e">>

\* `None.get(...)`
E_NoneHasNoGet ==
    <<"'", "N", "o", "n", "e", "T", "y", "p", "e", "'", " ", "o", "b", "j",
    "e", "c", "t", " ", "h", "a", "s", " ", "n", "o", " ", "a", "t", "t",
    "r", "i", "b", "u", "t", "e", " ", "'", "g", "e", "t", "'">>

(***************************************************************************)
(* Provider registry: what load_config leaves in self.config.              *)
(*   file absent            -> {}            (self.config is not assigned) *)
(*   file present but empty -> None          (yaml.safe_load of no document)*)
(*   otherwise              -> a mapping provider name -> {api, key, ...}  *)
(* A missing 'api' or 'key' reads as '' (dict.get default).                *)
(***************************************************************************)

\* The provider names either dispatcher has a branch for, and one it has not.
ProviderNames ==
    {"claude", "gemini", "openrouter", "chutes", "deepseek", "featherless",
     "moonshot", "nope"}

\* str(provider), for the f-strings that quote the provider name.
ProviderText(p) ==
    CASE p = "claude"      -> <<"c", "l", "a", "u", "d", "e">>
      [] p = "gemini"      -> <<"g", "e", "m", "i", "n", "i">>
      [] p = "openrouter"  -> <<"o", "p", "e", "n", "r", "o", "u", "t", "e", "r">>
      [] p = "chutes"      -> <<"c", "h", "u", "t", "e", "s">>
      [] p = "deepseek"    -> <<"d", "e", "e", "p", "s", "e", "e", "k">>
      [] p = "featherless" ->
             <<"f", "e", "a", "t", "h", "e", "r", "l", "e", "s", "s">>
      [] p = "moonshot"    -> <<"m", "o", "o", "n", "s", "h", "o", "t">>
      [] OTHER             -> <<"n", "o", "p", "e">>

ProviderData(url, key) == [api |-> url, key |-> key]

ConfigOf(names, url, key) ==
    [isNone |-> FALSE, data |-> [p \in names |-> ProviderData(url, key)]]

\* load_config: the provider file is absent.
ConfigAbsent == ConfigOf({}, "", "")

\* load_config: the provider file exists and holds no YAML document.
ConfigEmptyFile == [isNone |-> TRUE, data |-> [p \in {} |-> ProviderData("", "")]]

Configs ==
    { ConfigAbsent,
      ConfigEmptyFile,
      ConfigOf(ProviderNames, "https://api", "key"),
      ConfigOf(ProviderNames, "https://api", ""),
      ConfigOf({"gemini", "chutes"}, "https://api", "key") }

\* provider in self.config  (only evaluated on a mapping)
ConfigKeys(config) == DOMAIN config.data

\* self.config.get(provider, {}).get(field, '')
ConfigGet(config, p) ==
    IF p \in ConfigKeys(config) THEN config.data[p] ELSE ProviderData("", "")

Models == {"m1", "deepseek-chat"}

(***************************************************************************)
(* What the world outside does with one request: whether the SDK package   *)
(* of an SDK transport can be imported, and what comes back.               *)
(*   content       a response carrying the text raw                        *)
(*   missing_field a response without the expected field                   *)
(*                 (no content / no text / no 'choices' key)               *)
(*   empty_list    a response whose content or choices list is empty       *)
(*   error         network error, timeout, non-2xx status, SDK exception   *)
(***************************************************************************)
Response(kind, raw) == [kind |-> kind, raw |-> raw]

\* Raw provider texts used for dispatch: empty, blank, plain, with a cut
\* tag, and with the directives the turn orchestrator looks for.
ReplyRaws ==
    { <<>>,
      <<" ">>,
      <<"o", "k">>,
      <<"o", "k", "#", "#", "#", "x">>,
      <<"[", "I", "G", "N", "O", "R", "E", "]">>,
      <<"[", "P", "H", "O", "T", "O", ":", "s", "1", "]">>,
      <<"[", "P", "H", "O", "T", "O", ":", "n", "o", "]">>,
      <<"[", "P", "H", "O", "T", "O", ":", "s", ".", "]">> }

Responses ==
    {Response("content", r) : r \in ReplyRaws}
        \cup {Response(k, <<>>) : k \in {"missing_field", "empty_list", "error"}}

Envs == [installed : BOOLEAN, resp : Responses]

\* One request handed to an SDK or to requests.post.
Call(via, model, key) == [via |-> via, model |-> model, key |-> key]

\* The outcome of a Python call: the text it returns, or the exception it
\* raises (text = str(e)), and the requests it made on the way.
Ret(text, calls) == [kind |-> "return", text |-> text, calls |-> calls]

Raise(text, calls) == [kind |-> "raise", text |-> text, calls |-> calls]

\* str(e) of what the response handling raises on a response of this kind.
ExcText(kind) ==
    CASE kind = "missing_field" -> E_KeyError
      [] kind = "empty_list"    -> E_IndexError
      [] OTHER                  -> E_Transport

(***************************************************************************)
(* MessengerAPI (api_handler.py)                                           *)
(***************************************************************************)

\* MessengerAPI.send_claude
send_claude(model, api_key, env) ==
    IF ~env.installed THEN Ret(T_NoAnthropic, <<>>)
    ELSE IF api_key = "" THEN Ret(T_NoClaudeKey, <<>>)
    ELSE LET calls == <<Call("sdk", model, api_key)>>
         IN  CASE env.resp.kind = "content" ->
                      Ret(clean_text(env.resp.raw), calls)
               [] env.resp.kind \in {"missing_field", "empty_list"} ->
                      Ret(T_ClaudeEmpty, calls)
               [] OTHER -> Ret(T_ApiClaude \o ExcText(env.resp.kind), calls)

\* MessengerAPI.send_gemini
send_gemini(model, api_key, env) ==
    IF ~env.installed THEN Ret(T_NoGenai, <<>>)
    ELSE IF api_key = "" THEN Ret(T_NoGeminiKey, <<>>)
    ELSE LET calls == <<Call("sdk", model, api_key)>>
         IN  CASE env.resp.kind = "content" ->
                      Ret(clean_text(env.resp.raw), calls)
               [] env.resp.kind = "missing_field" ->
                      Ret(T_GeminiFormat, calls)
               [] OTHER -> Ret(T_ApiGemini \o ExcText(env.resp.kind), calls)

\* MessengerAPI.send_openrouter: catches requests.RequestException and
\* KeyError only; anything else leaves the function.
send_openrouter(model, api_url, api_key, env) ==
    LET calls == <<Call("http", model, api_key)>>
    IN  CASE env.resp.kind = "content" ->
                 Ret(clean_text(env.resp.raw), calls)
          [] env.resp.kind = "error" ->
                 Ret(T_ApiOpenRouter \o ExcText("error"), calls)
          [] env.resp.kind = "missing_field" ->
                 Ret(T_OpenRouterFormat, calls)
          [] OTHER -> Raise(ExcText(env.resp.kind), calls)

\* MessengerAPI.send_chutes
send_chutes(model, api_url, api_key, env) ==
    LET calls == <<Call("http", model, api_key)>>
    IN  IF env.resp.kind = "content"
        THEN Ret(clean_text(env.resp.raw), calls)
        ELSE Ret(T_ApiChutes \o ExcText(env.resp.kind), calls)

\* MessengerAPI.send_deepseek: the request names the model "deepseek-chat".
send_deepseek(model, api_url, api_key, env) ==
    IF ~env.installed THEN Ret(T_NoOpenai, <<>>)
    ELSE LET calls == <<Call("sdk", "deepseek-chat", api_key)>>
         IN  IF env.resp.kind = "content"
             THEN Ret(clean_text(env.resp.raw), calls)
             ELSE Ret(T_ApiDeepSeek \o ExcText(env.resp.kind), calls)

\* The try block of MessengerAPI.send_message: the provider branch.
APISendBranch(provider, model, data, env) ==
    CASE provider = "claude"     -> send_claude(model, data.key, env)
      [] provider = "gemini"     -> send_gemini(model, data.key, env)
      [] provider = "openrouter" ->
             send_openrouter(model, data.api, data.key, env)
      [] provider = "chutes"     -> send_chutes(model, data.api, data.key, env)
      [] provider = "deepseek"   ->
             send_deepseek(model, data.api, data.key, env)
      [] OTHER ->
             Ret(T_ProviderNotFoundPre \o ProviderText(provider)
                     \o T_NotSupportedPost, <<>>)

\* MessengerAPI.send_message(prompt, character_config), with provider and
\* model read from character_config['api_settings'].
APISendMessage(config, provider, model, env) ==
    IF config.isNone THEN Raise(E_NoneNotIterable, <<>>)
    ELSE IF provider \notin ConfigKeys(config)
    THEN Ret(T_ProviderNotFoundPre \o ProviderText(provider)
                 \o T_ProviderNotFoundPost, <<>>)
    ELSE LET r == APISendBranch(provider, model, config.data[provider], env)
         IN  IF r.kind = "raise" THEN Ret(T_ApiError \o r.text, r.calls)
             ELSE r

(***************************************************************************)
(* APIManager (core/api_manager.py)                                        *)
(***************************************************************************)

\* APIManager._send_claude / _send_gemini: import, call and cleaning are all
\* inside one try.
MgrSendSdk(prefix, model, api_key, env) ==
    IF ~env.installed THEN Ret(prefix \o E_Import, <<>>)
    ELSE LET calls == <<Call("sdk", model, api_key)>>
         IN  IF env.resp.kind = "content"
             THEN Ret(_clean_text(env.resp.raw), calls)
             ELSE Ret(prefix \o ExcText(env.resp.kind), calls)

\* APIManager._send_openai_compatible
_send_openai_compatible(model, api_url, api_key, env) ==
    LET calls == <<Call("http", model, api_key)>>
    IN  IF env.resp.kind = "content"
        THEN Ret(_clean_text(env.resp.raw), calls)
        ELSE Ret(T_ApiError \o ExcText(env.resp.kind), calls)

\* APIManager._send_deepseek: the request names the model "deepseek-chat".
_send_deepseek(api_url, api_key, env) ==
    MgrSendSdk(T_MgrDeepSeek, "deepseek-chat", api_key, env)

\* APIManager.send_message(prompt) with self.current_provider and
\* self.current_model; "" stands for None (both are falsy).
MgrSendMessage(config, provider, model, env) ==
    IF provider = "" \/ model = "" THEN Ret(T_NotSelected, <<>>)
    ELSE IF config.isNone THEN Raise(E_NoneHasNoGet, <<>>)
    ELSE LET data == ConfigGet(config, provider)
         IN  CASE provider = "claude" ->
                      MgrSendSdk(T_MgrClaude, model, data.key, env)
               [] provider = "gemini" ->
                      MgrSendSdk(T_MgrGemini, model, data.key, env)
               [] provider \in {"openrouter", "chutes", "featherless",
                                "moonshot"} ->
                      _send_openai_compatible(model, data.api, data.key, env)
               [] provider = "deepseek" ->
                      _send_deepseek(data.api, data.key, env)
               [] OTHER ->
                      Ret(T_MgrProviderPre \o ProviderText(provider)
                              \o T_MgrNotSupportedPost, <<>>)

Dispatchers == {"MessengerAPI", "APIManager"}


(***************************************************************************)
(* Personas, groups and messages.                                          *)
(*                                                                         *)
(* A prompt template is a sequence of pieces: literal text, or a           *)
(* replacement field {name} of str.format.  Identifiers of personas and    *)
(* groups are one-character strings, so <<id>> is the text of the id.      *)
(***************************************************************************)
MAX_MESSAGES_IN_HISTORY == 100

MAX_MESSAGES_FOR_API == 15

RECURSIVE Concat(_)
\* ''.join(seqs)
Concat(seqs) ==
    IF seqs = <<>> THEN <<>> ELSE Head(seqs) \o Concat(Tail(seqs))

\* s[-n:]
LastN(s, n) ==
    IF Len(s) <= n THEN s ELSE SubSeq(s, Len(s) - n + 1, Len(s))

Lit(chars) == [field |-> "", lit |-> chars]

Field(name) == [field |-> name, lit |-> <<>>]

FieldText(name) ==
    CASE name = "group_name" ->
             <<"g", "r", "o", "u", "p", "_", "n", "a", "m", "e">>
      [] name = "members"    -> <<"m", "e", "m", "b", "e", "r", "s">>
      [] OTHER               -> <<"u", "s", "e", "r">>

\* The template as written in the persona file.
TemplateText(t) ==
    Concat([i \in 1..Len(t) |->
               IF t[i].field = "" THEN t[i].lit
               ELSE <<"{">> \o FieldText(t[i].field) \o <<"}">>])

\* system_prompt.format(group_name=..., members=...): a replacement field
\* with any other name raises KeyError, whose str is the quoted name.
Format(t, group_name, members) ==
    LET bad == {i \in 1..Len(t) : t[i].field \notin {"", "group_name", "members"}}
    IN  IF bad # {}
        THEN LET i == CHOOSE k \in bad : \A j \in bad : k <= j
             IN  Raise(<<"'">> \o FieldText(t[i].field) \o <<"'">>, <<>>)
        ELSE Ret(Concat([i \in 1..Len(t) |->
                            CASE t[i].field = ""           -> t[i].lit
                              [] t[i].field = "group_name" -> group_name
                              [] OTHER                     -> members]),
                 <<>>)

Photo(filename, on_disk) == [filename |-> filename, on_disk |-> on_disk]

Character(id, name, private_prompt, group_prompt, photos, provider, model) ==
    [id |-> id, name |-> name, private_prompt |-> private_prompt,
     group_prompt |-> group_prompt, photos |-> photos,
     api_settings |-> [provider |-> provider, model |-> model]]

GroupPromptPlain ==
    <<Lit(<<"i", "n", " ">>), Field("group_name"),
      Lit(<<" ", "w", "i", "t", "h", " ">>), Field("members")>>

\* A group prompt that names a replacement field format() is not given.
GroupPromptOtherField == <<Lit(<<"h", "i", " ">>), Field("user")>>

\* The persona table after load_characters: personas a and b; a has two
\* photos listed, of which the first is no longer on disk.
CharactersWith(groupPromptOfA) ==
    [c \in {"a", "b"} |->
        IF c = "a"
        THEN Character("a", <<"A">>, <<Lit(<<"p", "a">>)>>, groupPromptOfA,
                       <<Photo(<<"x", "1", ".", "p", "n", "g">>, FALSE),
                         Photo(<<"s", "1", ".", "p", "n", "g">>, TRUE),
                         Photo(<<"s", "1", "b", ".", "p", "n", "g">>, TRUE)>>,
                       "claude", "m1")
        ELSE Character("b", <<"B">>, <<Lit(<<"p", "b">>)>>, GroupPromptPlain,
                       <<>>, "openrouter", "m1")]

CharacterTables ==
    {CharactersWith(GroupPromptPlain), CharactersWith(GroupPromptOtherField)}

Group(name, members) == [name |-> name, members |-> members]

\* The group table after load_groups: one group whose stored member list
\* names a, a persona x whose folder is gone, and b.
GroupTable == [c \in {"g"} |-> Group(<<"G">>, <<"a", "x", "b">>)]

\* The chats of the chat list the user opens: persona a and the group.
ChatIds == {"a", "g"}

\* A message.  A photo message has no text, a text message no photo_path.
\* by is not a field of the program: it records the turn (worker) whose
\* code appended the message, 0 for a message loaded from a file.
Message(id, sender, text, timestamp, type, photo_path, by) ==
    [id |-> id, sender |-> sender, text |-> text, timestamp |-> timestamp,
     type |-> type, photo_path |-> photo_path, by |-> by]

\* os.path.join(CHARACTERS_DIR, character['id'], 'photos', filename)
PhotoPath(id, filename) ==
    <<"c", "h", "a", "r", "a", "c", "t", "e", "r", "s", "/", id, "/",
      "p", "h", "o", "t", "o", "s", "/">> \o filename

(***************************************************************************)
(* build_prompt.                                                           *)
(***************************************************************************)
\* "Пользователь"
UserName ==
    <<"u041F", "u043E", "u043B", "u044C", "u0437", "u043E", "u0432",
      "u0430", "u0442", "u0435", "u043B", "u044C">>

\* "[отправил(а) фото]"
PhotoSentText ==
    <<"[", "u043E", "u0442", "u043F", "u0440", "u0430", "u0432", "u0438",
      "u043B", "(", "u0430", ")", " ", "u0444", "u043E", "u0442", "u043E",
      "]">>

\* "История переписки:"
HistoryHeader ==
    <<"u0418", "u0441", "u0442", "u043E", "u0440", "u0438", "u044F", " ",
      "u043F", "u0435", "u0440", "u0435", "u043F", "u0438", "u0441", "u043A",
      "u0438", ":">>

\* "Ответь на последнее сообщение."
AnswerLastText ==
    <<"u041E", "u0442", "u0432", "u0435", "u0442", "u044C", " ", "u043D",
      "u0430", " ", "u043F", "u043E", "u0441", "u043B", "u0435", "u0434",
      "u043D", "u0435", "u0435", " ", "u0441", "u043E", "u043E", "u0431",
      "u0449", "u0435", "u043D", "u0438", "u0435", ".">>

\* "Ответь на последнее сообщение пользователя естественно и по характеру
\* персонажа."
AnswerNaturallyText ==
    <<"u041E", "u0442", "u0432", "u0435", "u0442", "u044C", " ", "u043D",
      "u0430", " ", "u043F", "u043E", "u0441", "u043B", "u0435", "u0434",
      "u043D", "u0435", "u0435", " ", "u0441", "u043E", "u043E", "u0431",
      "u0449", "u0435", "u043D", "u0438", "u0435", " ", "u043F", "u043E",
      "u043B", "u044C", "u0437", "u043E", "u0432", "u0430", "u0442", "u0435",
      "u043B", "u044F", " ", "u0435", "u0441", "u0442", "u0435", "u0441",
      "u0442", "u0432", "u0435", "u043D", "u043D", "u043E", " ", "u0438",
      " ", "u043F", "u043E", " ", "u0445", "u0430", "u0440", "u0430",
      "u043A", "u0442", "u0435", "u0440", "u0443", " ", "u043F", "u0435",
      "u0440", "u0441", "u043E", "u043D", "u0430", "u0436", "u0430", ".">>

\* "Пользователь" if sender == 'user' else
\* personas.get(sender, <a persona named by its id>).name
SenderName(personas, sender) ==
    IF sender = "user" THEN UserName
    ELSE IF sender \in DOMAIN personas THEN personas[sender].name
    ELSE <<sender>>

\* Joining the names with a comma and no blank.
JoinNamesComma(names) ==
    Concat([i \in 1..Len(names) |->
               IF i = 1 THEN names[i] ELSE <<",">> \o names[i]])

\* ', '.join(names)
JoinNames(names) ==
    Concat([i \in 1..Len(names) |->
               IF i = 1 THEN names[i] ELSE <<",", " ">> \o names[i]])

MemberNames(personas, members) ==
    JoinNames([i \in 1..Len(members) |-> SenderName(personas, members[i])])

\* History line of one message in MessengerApp.build_prompt.
HistoryLine(personas, msg) ==
    CASE msg.type = "text" ->
             SenderName(personas, msg.sender) \o <<":", " ">> \o msg.text
                 \o <<"\n">>
      [] msg.type = "photo" ->
             SenderName(personas, msg.sender) \o <<":", " ">>
                 \o PhotoSentText \o <<"\n">>
      [] OTHER -> <<>>

\* History line of one message in ChatManager.build_prompt.
MgrHistoryLine(personas, msg) ==
    IF msg.type = "text"
    THEN SenderName(personas, msg.sender) \o <<":", " ">> \o msg.text
             \o <<"\n">>
    ELSE <<>>

\* MessengerApp.build_prompt(character, chat_type, group_context), with
\* the chat table and the open chat it reads from self.
build_prompt(personas, table, open_id, character, chat_type, group_context) ==
    LET system_prompt ==
            IF chat_type = "private"
            THEN Ret(TemplateText(character.private_prompt), <<>>)
            ELSE Format(character.group_prompt, group_context.name,
                        MemberNames(personas, group_context.members))
        messages ==
            IF open_id \in DOMAIN table
            THEN table[open_id] ELSE <<>>
        recent_messages == LastN(messages, MAX_MESSAGES_FOR_API)
        history_text ==
            Concat([i \in 1..Len(recent_messages) |->
                       HistoryLine(personas, recent_messages[i])])
    IN  IF system_prompt.kind = "raise" THEN system_prompt
        ELSE Ret(system_prompt.text \o <<"\n", "\n">> \o HistoryHeader
                     \o <<"\n">> \o history_text \o <<"\n", "\n">>
                     \o AnswerNaturallyText,
                 <<>>)

\* ChatManager.build_prompt(chat_id, character, is_group)
Mgr_build_prompt(personas, grps, table, chat_id, character, is_group) ==
    LET system_prompt ==
            IF is_group /\ chat_id \in DOMAIN grps
            THEN Format(character.group_prompt, grps[chat_id].name,
                        MemberNames(personas, grps[chat_id].members))
            ELSE IF is_group THEN Ret(TemplateText(character.group_prompt), <<>>)
            ELSE Ret(TemplateText(character.private_prompt), <<>>)
        messages ==
            LastN(IF chat_id \in DOMAIN table THEN table[chat_id] ELSE <<>>,
                  MAX_MESSAGES_FOR_API)
        history_text ==
            Concat([i \in 1..Len(messages) |->
                       MgrHistoryLine(personas, messages[i])])
    IN  IF system_prompt.kind = "raise" THEN system_prompt
        ELSE Ret(system_prompt.text \o <<"\n", "\n">> \o HistoryHeader
                     \o <<"\n">> \o history_text \o <<"\n">>
                     \o AnswerLastText,
                 <<>>)

(***************************************************************************)
(* Directives in a reply.                                                  *)
(***************************************************************************)
IgnoreTag == <<"[", "I", "G", "N", "O", "R", "E", "]">>

\* Taking only a reply that is the tag and nothing else as ignored.
HasIgnoreWhole(response) == response = IgnoreTag

\* '[IGNORE]' in response
HasIgnore(response) == Contains(response, IgnoreTag)

PhotoOpen == <<"[", "P", "H", "O", "T", "O", ":">>

\* The personas \w matches among those the replies of this model hold.
WordChars ==
    {"a", "b", "c", "d", "e", "f", "g", "h", "i", "j", "k", "l", "m", "n",
     "o", "p", "q", "r", "s", "t", "u", "v", "w", "x", "y", "z",
     "A", "B", "C", "D", "E", "F", "G", "H", "I", "J", "K", "L", "M", "N",
     "O", "P", "Q", "R", "S", "T", "U", "V", "W", "X", "Y", "Z",
     "0", "1", "2", "3", "4", "5", "6", "7", "8", "9", "_"}

\* The places <<i, j>> where \[PHOTO:(\w+)\] matches: "[PHOTO:" at i, one
\* or more word personas, and "]" at j.
PhotoMatches(text) ==
    {m \in (1..Len(text)) \X (1..Len(text)) :
        /\ MatchAt(text, PhotoOpen, m[1])
        /\ m[2] > m[1] + Len(PhotoOpen)
        /\ text[m[2]] = "]"
        /\ \A k \in (m[1] + Len(PhotoOpen))..(m[2] - 1) : text[k] \in WordChars}

\* re.search(r'\[PHOTO:(\w+)\]', response_text): group(1) of the leftmost
\* match, <<>> when there is none.
PhotoToken(text) ==
    IF PhotoMatches(text) = {} THEN <<>>
    ELSE LET m == CHOOSE x \in PhotoMatches(text) :
                      \A y \in PhotoMatches(text) : x[1] <= y[1]
         IN  SubSeq(text, m[1] + Len(PhotoOpen), m[2] - 1)

(***************************************************************************)
(* The conversation store: the chat table in memory and the chat files.    *)
(***************************************************************************)
NoChats == [c \in {} |-> <<>>]

ChatFile(chat_type, character_id, messages) ==
    [chat_type |-> chat_type, character_id |-> character_id,
     messages |-> messages]

NoFiles == [c \in {} |-> ChatFile("private", "", <<>>)]

Store(table, files) == [chats |-> table, disk |-> files]

\* if chat_id not in self.chats: self.chats[chat_id] = []
WithKey(table, chat_id) ==
    IF chat_id \in DOMAIN table THEN table
    ELSE [c \in DOMAIN table \cup {chat_id} |->
             IF c = chat_id THEN <<>> ELSE table[c]]

WriteFile(files, chat_id, file) ==
    [c \in DOMAIN files \cup {chat_id} |->
        IF c = chat_id THEN file ELSE files[c]]

\* d.get(key, default)
DictGet(d, key, default) == IF key \in DOMAIN d THEN d[key] ELSE default

\* The JSON object of a message, with these keys.
DictWith(keys, msg) ==
    [k \in keys |->
        CASE k = "id"         -> msg.id
          [] k = "sender"     -> msg.sender
          [] k = "text"       -> msg.text
          [] k = "timestamp"  -> msg.timestamp
          [] k = "type"       -> msg.type
          [] OTHER            -> msg.photo_path]

\* The dict MessengerApp holds for a message and json.dump writes: a text
\* message has no 'photo_path' key, a photo message no 'text' key.
MessageDict(msg) ==
    DictWith(IF msg.type = "photo"
             THEN {"id", "sender", "timestamp", "type", "photo_path"}
             ELSE {"id", "sender", "text", "timestamp", "type"},
             msg)

\* msg_dict of ChatManager.save_chat_history: 'photo_path' only if set.
Mgr_msg_dict(msg) ==
    DictWith({"id", "sender", "text", "timestamp", "type"}
                 \cup (IF msg.photo_path # <<>> THEN {"photo_path"} ELSE {}),
             msg)

\* The message a JSON object of a chat file stands for after loading
\* (ChatManager._load_chat_history builds it with these defaults;
\* MessengerApp keeps the dict and reads it with the same defaults).
MessageOfDict(d) ==
    Message(d["id"], d["sender"], DictGet(d, "text", <<>>), d["timestamp"],
            d["type"], DictGet(d, "photo_path", <<>>), 0)

\* Keeping the oldest messages of the window instead of the newest.
FileOfOldest(grps, chat_id, messages) ==
    ChatFile(IF chat_id \in DOMAIN grps THEN "group" ELSE "private",
             IF chat_id \in DOMAIN grps THEN "" ELSE chat_id,
             SubSeq(messages, 1,
                    IF Len(messages) <= MAX_MESSAGES_IN_HISTORY
                    THEN Len(messages) ELSE MAX_MESSAGES_IN_HISTORY))

\* The file save_chat_history writes (character_id None is "").
FileOf(grps, chat_id, messages) ==
    ChatFile(IF chat_id \in DOMAIN grps THEN "group" ELSE "private",
             IF chat_id \in DOMAIN grps THEN "" ELSE chat_id,
             LastN(messages, MAX_MESSAGES_IN_HISTORY))

\* MessengerApp.save_chat_history(chat_id)
save_chat_history(grps, st, chat_id) ==
    LET messages == IF chat_id \in DOMAIN st.chats
                    THEN st.chats[chat_id] ELSE <<>>
    IN  Store(st.chats,
              WriteFile(st.disk, chat_id,
                        FileOf(grps, chat_id,
                               [i \in 1..Len(messages) |->
                                   MessageDict(messages[i])])))

\* ChatManager.save_chat_history(chat_id)
Mgr_save_chat_history(grps, st, chat_id) ==
    IF chat_id \notin DOMAIN st.chats THEN st
    ELSE LET messages == LastN(st.chats[chat_id], MAX_MESSAGES_IN_HISTORY)
         IN  Store(st.chats,
                   WriteFile(st.disk, chat_id,
                             FileOf(grps, chat_id,
                                    [i \in 1..Len(messages) |->
                                        Mgr_msg_dict(messages[i])])))

\* load_chat_history(chat_id) / _load_chat_history(chat_id): the messages
\* of the chat file, an empty list if there is no file.
load_chat_history(files, chat_id) ==
    IF chat_id \notin DOMAIN files THEN <<>>
    ELSE [i \in 1..Len(files[chat_id].messages) |->
             MessageOfDict(files[chat_id].messages[i])]

\* ChatManager.add_message(chat_id, sender, text, msg_type, photo_path)
add_message_of(grps, st, chat_id, sender, text, msg_type, photo_path, time, by) ==
    LET msg == Message(time, sender, text, time, msg_type, photo_path, by)
        table == WithKey(st.chats, chat_id)
    IN  Mgr_save_chat_history(
            grps,
            Store([table EXCEPT ![chat_id] = Append(@, msg)], st.disk),
            chat_id)

\* ChatManager.add_message(chat_id, sender, text): msg_type 'text', no photo.
add_message(grps, st, chat_id, sender, text, time, by) ==
    add_message_of(grps, st, chat_id, sender, text, "text", <<>>, time, by)

\* The outcome of a step of the orchestrator on the store.
Done(st) == [kind |-> "return", text |-> <<>>, st |-> st]

Fault(text, st) == [kind |-> "raise", text |-> text, st |-> st]

\* str(KeyError(chat_id))
KeyErrorText(chat_id) == <<"'", chat_id, "'">>

\* self.chats[self.current_chat_id].append(msg), then
\* self.save_chat_history(self.current_chat_id)
AppendAndSave(grps, st, open_id, msg) ==
    IF open_id \notin DOMAIN st.chats
    THEN Fault(KeyErrorText(open_id), st)
    ELSE Done(save_chat_history(
                  grps,
                  Store([st.chats EXCEPT ![open_id] = Append(@, msg)],
                        st.disk),
                  open_id))

\* MessengerApp.send_character_photo(character, photo_filename, sender_id)
send_character_photo(grps, st, open_id, character, photo_filename, sender_id, time, by) ==
    LET photos == character.photos
        found == {i \in 1..Len(photos) :
                     Contains(photos[i].filename, photo_filename)}
        first == CHOOSE i \in found : \A j \in found : i <= j
    IN  IF found = {} \/ ~photos[first].on_disk
        THEN Done(st)
        ELSE AppendAndSave(
                 grps, st, open_id,
                 Message(time, sender_id, <<>>, time, "photo",
                         PhotoPath(character.id, photos[first].filename), by))

\* MessengerApp.process_character_response(response_text, character,
\* sender_id)
process_character_response(grps, st, open_id, response_text, character, sender_id, time, by) ==
    IF PhotoToken(response_text) # <<>>
    THEN send_character_photo(grps, st, open_id, character,
                              PhotoToken(response_text), sender_id, time, by)
    ELSE AppendAndSave(
             grps, st, open_id,
             Message(time, sender_id, response_text, time, "text", <<>>, by))

(***************************************************************************)
(* Values of the variables a specification does not use.                   *)
(***************************************************************************)
NoCall ==
    [called |-> FALSE, provider |-> "", model |-> "", kind |-> "return",
     text |-> <<>>, calls |-> <<>>]

CleanIdle ==
    /\ cl_impl = "MessengerAPI"
    /\ cl_raw = <<>>
    /\ cl_outs = <<>>

DispIdle ==
    /\ d_impl = "MessengerAPI"
    /\ d_config = ConfigAbsent
    /\ d_provider = ""
    /\ d_model = ""
    /\ d_last = NoCall

Turns == 1..MaxTurns

IdleWorker ==
    [pc |-> "idle", chat0 |-> "", mode |-> "", group |-> "",
     members |-> <<>>, idx |-> 0, dispatched |-> <<>>, replies |-> <<>>]

TurnIdle ==
    /\ characters = CharactersWith(GroupPromptPlain)
    /\ groups = GroupTable
    /\ chats = NoChats
    /\ disk = NoFiles
    /\ current_chat_id = ""
    /\ typing_indicators = [c \in {} |-> FALSE]
    /\ workers = [w \in Turns |-> IdleWorker]
    /\ now = 0

NoPrompt == [built |-> FALSE, mode |-> "", text |-> <<>>]

PromptIdle ==
    /\ p_impl = "MessengerApp"
    /\ p_msgs = <<>>
    /\ p_out = NoPrompt

NoMessage == Message(0, "", <<>>, 0, "", <<>>, 0)

StoreIdle ==
    /\ s_pc = "fresh"
    /\ s_mem = <<>>
    /\ s_msg = NoMessage

\* No second turn is running.
RaceIdle == racers = <<>>

\* No persona folder is being read.
LoadIdle ==
    /\ char_files = <<>>
    /\ load_pc = "loaded"
    /\ group_files = [c \in {} |-> <<>>]

(***************************************************************************)
(* Specification of the normalizer alone: a raw text is drawn, the cleaner *)
(* is applied to it, and then applied again to its own output.             *)
(***************************************************************************)
InitClean ==
    /\ cl_impl \in Cleaners
    /\ cl_raw \in RawTexts
    /\ cl_outs = <<>>
    /\ DispIdle
    /\ TurnIdle
    /\ PromptIdle
    /\ StoreIdle
    /\ LoadIdle
    /\ RaceIdle

CleanRaw ==
    /\ cl_outs = <<>>
    /\ cl_outs' = <<Clean(cl_impl, cl_raw)>>
    /\ UNCHANGED <<raceVars, loadVars, cl_impl, cl_raw, dispVars, turnVars, promptVars, storeVars>>

CleanAgain ==
    /\ Len(cl_outs) = 1
    /\ cl_outs' = Append(cl_outs, Clean(cl_impl, cl_outs[1]))
    /\ UNCHANGED <<raceVars, loadVars, cl_impl, cl_raw, dispVars, turnVars, promptVars, storeVars>>

NextClean == CleanRaw \/ CleanAgain

SpecClean == InitClean /\ [][NextClean]_vars

(***************************************************************************)
(* Specification of a dispatcher alone: the configuration is loaded, then  *)
(* send_message is called any number of times, for any provider and model  *)
(* and any behaviour of the transport.                                     *)
(***************************************************************************)
InitDispatch ==
    /\ d_impl \in Dispatchers
    /\ d_config \in Configs
    /\ d_provider = ""
    /\ d_model = ""
    /\ d_last = NoCall
    /\ CleanIdle
    /\ TurnIdle
    /\ PromptIdle
    /\ StoreIdle
    /\ LoadIdle
    /\ RaceIdle

Called(provider, model, r) ==
    [called |-> TRUE, provider |-> provider, model |-> model,
     kind |-> r.kind, text |-> r.text, calls |-> r.calls]

\* APIManager.set_provider_and_model(provider, model)
SetProviderAndModel ==
    /\ d_impl = "APIManager"
    /\ \E p \in ProviderNames, m \in Models :
           /\ d_provider' = p
           /\ d_model' = m
    /\ UNCHANGED <<raceVars, loadVars, d_impl, d_config, d_last, cleanVars, turnVars, promptVars, storeVars>>

\* MessengerAPI.send_message(prompt, character_config)
DispatchAPI ==
    /\ d_impl = "MessengerAPI"
    /\ \E p \in ProviderNames, m \in Models, env \in Envs :
           d_last' = Called(p, m, APISendMessage(d_config, p, m, env))
    /\ UNCHANGED <<raceVars, loadVars, d_impl, d_config, d_provider, d_model, cleanVars, turnVars, promptVars, storeVars>>

\* APIManager.send_message(prompt)
DispatchMgr ==
    /\ d_impl = "APIManager"
    /\ \E env \in Envs :
           d_last' = Called(d_provider, d_model,
                            MgrSendMessage(d_config, d_provider, d_model, env))
    /\ UNCHANGED <<raceVars, loadVars, d_impl, d_config, d_provider, d_model, cleanVars, turnVars, promptVars, storeVars>>

NextDispatch == SetProviderAndModel \/ DispatchAPI \/ DispatchMgr

SpecDispatch == InitDispatch /\ [][NextDispatch]_vars

(***************************************************************************)
(* The turn orchestrator.                                                  *)
(*                                                                         *)
(* d_impl tells the generation of the program: MessengerApp owns a         *)
(* MessengerAPI, MainWindow (ChatArea + ChatManager) owns an APIManager.   *)
(* Every submitted message starts one worker thread; workers[w] is the     *)
(* position of the w-th one:                                               *)
(*   idle       not started                                                *)
(*   start      thread started, get_character_response not yet entered     *)
(*   loop       about to take the next member (or to leave the loop)       *)
(*   await      request sent, waiting for the provider                     *)
(*   sleep      MessengerApp group turn: in time.sleep(1) before recording *)
(*   hide       MessengerApp: about to call hide_typing_indicator          *)
(*   Completed  get_character_response returned                            *)
(*   Failed     the thread died of an exception nobody caught              *)
(***************************************************************************)
Legacy == d_impl = "MessengerAPI"

\* What the input field holds when Send is pressed.
InputTexts == {<<"h", "i">>, <<" ", "h", "i", "\n">>, <<" ", "\n">>}

\* The provider's behaviour during a turn.
TurnRaws ==
    { <<"o", "k">>,
      <<"n", "o", " ", "[", "I", "G", "N", "O", "R", "E", "]">>,
      <<"[", "P", "H", "O", "T", "O", ":", "s", "1", "]">>,
      <<"[", "P", "H", "O", "T", "O", ":", "n", "o", "]">> }

TurnEnvs ==
    {[installed |-> TRUE, resp |-> Response("content", r)] : r \in TurnRaws}
        \cup {[installed |-> TRUE, resp |-> Response("error", <<>>)]}

ConfigFull == ConfigOf(ProviderNames, "https://api", "key")

\* A chat file left by an earlier run: a photo sent by persona a, at a
\* time before this run's clock started.
OldFiles ==
    [c \in {"g"} |->
        ChatFile("group", "",
                 <<MessageDict(
                       Message(-1, "a", <<>>, -1, "photo",
                               PhotoPath("a", <<"s", "1", ".", "p", "n", "g">>),
                               0))>>)]

\* load_all_chats / _load_chats: one chat per chat file.
LoadChats(files) == [c \in DOMAIN files |-> load_chat_history(files, c)]

\* send_message of the program's dispatcher for one persona.
SendFor(character, env) ==
    IF Legacy
    THEN APISendMessage(d_config, character.api_settings.provider,
                        character.api_settings.model, env)
    ELSE MgrSendMessage(d_config, d_provider, d_model, env)

InitTurn ==
    /\ d_impl \in Dispatchers
    /\ d_config \in IF Legacy THEN {ConfigFull, ConfigEmptyFile}
                              ELSE {ConfigFull}
    /\ d_provider = IF Legacy THEN "" ELSE "claude"
    /\ d_model = IF Legacy THEN "" ELSE "m1"
    /\ d_last = NoCall
    /\ characters \in CharacterTables
    /\ groups = GroupTable
    /\ disk \in {NoFiles, OldFiles}
    /\ chats = LoadChats(disk)
    /\ current_chat_id = IF Legacy /\ disk = OldFiles THEN "g" ELSE ""
    /\ typing_indicators = [c \in {} |-> FALSE]
    /\ workers = [w \in Turns |-> IdleWorker]
    /\ now = 0
    /\ CleanIdle
    /\ PromptIdle
    /\ StoreIdle
    /\ LoadIdle
    /\ RaceIdle

\* A millisecond passes.
Tick ==
    /\ now < MaxClock
    /\ now' = now + 1
    /\ UNCHANGED <<raceVars, loadVars, cleanVars, dispVars, promptVars, storeVars, characters, groups, chats,
                   disk, current_chat_id, typing_indicators, workers>>

\* open_chat(chat_id): the user clicks a chat of the chat list.
OpenChat ==
    /\ \E c \in ChatIds :
           /\ c # current_chat_id
           /\ current_chat_id' = c
    /\ UNCHANGED <<raceVars, loadVars, cleanVars, dispVars, promptVars, storeVars, characters, groups, chats,
                   disk, typing_indicators, workers, now>>

\* The user's message appended to the open chat and the chat saved.
UserMessageStored(input, w) ==
    LET msg == Message(now, "user", Strip(input), now, "text", <<>>, w)
    IN  IF Legacy
        THEN save_chat_history(
                 groups,
                 Store([WithKey(chats, current_chat_id)
                           EXCEPT ![current_chat_id] = Append(@, msg)],
                       disk),
                 current_chat_id)
        ELSE add_message(groups, Store(chats, disk), current_chat_id, "user",
                         Strip(input), now, w)

\* Appending and starting the worker whatever the input and the open chat.
SubmitUnchecked(input, w) ==
    [st |-> IF current_chat_id = ""
            THEN Store(chats, disk) ELSE UserMessageStored(input, w),
     started |-> TRUE]

\* send_message() with this text in the input field, as the w-th
\* submission: the store afterwards, and whether a worker was started.
Submit(input, w) ==
    IF current_chat_id = "" \/ Strip(input) = <<>>
    THEN [st |-> Store(chats, disk), started |-> FALSE]
    ELSE [st |-> UserMessageStored(input, w), started |-> TRUE]

\* send_message(): the user presses Send.
SendMessage ==
    /\ \E w \in Turns, input \in InputTexts :
           /\ workers[w].pc = "idle"
           /\ \A v \in 1..(w - 1) : workers[v].pc # "idle"
           /\ chats' = Submit(input, w).st.chats
           /\ disk' = Submit(input, w).st.disk
           /\ workers' =
                  IF Submit(input, w).started
                  THEN [workers EXCEPT ![w] =
                           [IdleWorker EXCEPT !.pc = "start",
                                              !.chat0 = current_chat_id]]
                  ELSE workers
    /\ UNCHANGED <<raceVars, loadVars, cleanVars, dispVars, promptVars, storeVars, characters, groups,
                   current_chat_id, typing_indicators, now>>

SetTyping(chat_id, flag) ==
    [c \in DOMAIN typing_indicators \cup {chat_id} |->
        IF c = chat_id THEN flag ELSE typing_indicators[c]]

\* Iterating the member list from its end.
MemberAtReversed(members, idx) == members[Len(members) - idx + 1]

\* for member_id in members: the member a worker in the loop is at.
MemberAt(members, idx) == members[idx]

\* get_character_response entered: MessengerApp shows the typing indicator;
\* the open chat decides between the group loop and the private reply.
WBegin(w) ==
    /\ workers[w].pc = "start"
    /\ typing_indicators' =
           IF Legacy THEN SetTyping(current_chat_id, TRUE)
           ELSE typing_indicators
    /\ workers' = [workers EXCEPT ![w] =
           IF current_chat_id \in DOMAIN groups
           THEN [@ EXCEPT !.pc = "loop", !.mode = "group",
                          !.group = current_chat_id,
                          !.members = groups[current_chat_id].members,
                          !.idx = 1]
           ELSE IF current_chat_id \in DOMAIN characters
           THEN [@ EXCEPT !.pc = "loop", !.mode = "private",
                          !.members = <<current_chat_id>>, !.idx = 1]
           ELSE [@ EXCEPT !.pc = IF Legacy THEN "hide" ELSE "Completed",
                          !.mode = "private"]]
    /\ UNCHANGED <<raceVars, loadVars, cleanVars, dispVars, promptVars, storeVars, characters, groups, chats,
                   disk, current_chat_id, now>>

\* The prompt for the member the worker is at.
PromptFor(wk, member) ==
    IF Legacy
    THEN build_prompt(characters, chats, current_chat_id, characters[member],
                      wk.mode,
                      IF wk.mode = "group" THEN groups[wk.group]
                      ELSE Group(<<>>, <<>>))
    ELSE Mgr_build_prompt(characters, groups, chats, current_chat_id,
                          characters[member], wk.mode = "group")

\* One pass of the loop head: leave the loop, skip an unknown member, or
\* build the member's prompt and send the request.  A fault of build_prompt
\* is raised outside the try block and ends the thread.
WMember(w) ==
    LET wk == workers[w] IN
    /\ wk.pc = "loop"
    /\ workers' = [workers EXCEPT ![w] =
           IF wk.idx > Len(wk.members)
           THEN [@ EXCEPT !.pc = IF Legacy THEN "hide" ELSE "Completed"]
           ELSE IF MemberAt(wk.members, wk.idx) \notin DOMAIN characters
           THEN [@ EXCEPT !.idx = @ + 1]
           ELSE LET member == MemberAt(wk.members, wk.idx)
                    prompt == PromptFor(wk, member)
                IN  IF prompt.kind = "raise"
                    THEN [@ EXCEPT !.pc = "Failed"]
                    ELSE [@ EXCEPT !.pc = "await",
                                   !.dispatched =
                                       Append(@, [member |-> member,
                                                  prompt |-> prompt.text])]]
    /\ UNCHANGED <<raceVars, loadVars, cleanVars, dispVars, promptVars, storeVars, characters, groups, chats,
                   disk, current_chat_id, typing_indicators, now>>

\* "[Ошибка API: "
ApiErrorOpen ==
    <<"[", "u041E", "u0448", "u0438", "u0431", "u043A", "u0430", " ", "A",
      "P", "I", ":", " ">>

\* The except branch of handle_private_response: the error message is put
\* into the open chat (and not saved); if that fails too, the thread dies.
PrivateError(st, text, sender, time, by) ==
    IF current_chat_id \notin DOMAIN st.chats
    THEN Fault(KeyErrorText(current_chat_id), st)
    ELSE Done(Store([st.chats EXCEPT ![current_chat_id] =
                        Append(@, Message(time, sender,
                                          ApiErrorOpen \o text \o <<"]">>,
                                          time, "text", <<>>, by))],
                    st.disk))

\* What the worker does with the dispatcher's result r for member:
\* the new store and the worker's next position.
AfterResponse(wk, w, member, r) ==
    LET st == Store(chats, disk)
        next == [pc |-> "loop", st |-> st]
    IN  IF wk.mode = "group"
        THEN IF r.kind = "raise" \/ HasIgnore(r.text) THEN next
             ELSE IF Legacy THEN [pc |-> "sleep", st |-> st]
             ELSE [pc |-> "loop",
                   st |-> add_message(groups, st, current_chat_id, member,
                                      r.text, now, w)]
        ELSE IF Legacy
        THEN LET p == IF r.kind = "raise" THEN Fault(r.text, st)
                      ELSE process_character_response(
                               groups, st, current_chat_id, r.text,
                               characters[member], member, now, w)
                 e == IF p.kind = "raise"
                      THEN PrivateError(p.st, p.text, member, now, w)
                      ELSE p
             IN  [pc |-> IF e.kind = "raise" THEN "Failed" ELSE "loop",
                  st |-> e.st]
        ELSE IF r.kind = "raise" THEN next
        ELSE [pc |-> "loop",
              st |-> add_message(groups, st, current_chat_id,
                                 current_chat_id, r.text, now, w)]

\* The provider answers (or the request fails): send_message returns or
\* raises, and the worker handles the result.
WResponse(w) ==
    LET wk == workers[w]
        member == MemberAt(wk.members, wk.idx)
    IN
    /\ wk.pc = "await"
    /\ \E env \in TurnEnvs :
           LET r == SendFor(characters[member], env)
               a == AfterResponse(wk, w, member, r)
           IN  /\ chats' = a.st.chats
               /\ disk' = a.st.disk
               /\ workers' = [workers EXCEPT ![w] =
                      [@ EXCEPT !.pc = a.pc,
                                !.idx = IF a.pc = "loop" THEN @ + 1 ELSE @,
                                !.replies =
                                    Append(@, [member |-> member,
                                               kind |-> r.kind,
                                               text |-> r.text])]]
    /\ UNCHANGED <<raceVars, loadVars, cleanVars, dispVars, promptVars, storeVars, characters, groups,
                   current_chat_id, typing_indicators, now>>

\* MessengerApp group turn, after time.sleep(1): the reply is recorded in
\* the chat that is open now; a fault is caught by the member's except.
WProcess(w) ==
    LET wk == workers[w]
        member == MemberAt(wk.members, wk.idx)
        p == process_character_response(
                 groups, Store(chats, disk), current_chat_id,
                 wk.replies[Len(wk.replies)].text, characters[member],
                 member, now, w)
    IN
    /\ wk.pc = "sleep"
    /\ chats' = p.st.chats
    /\ disk' = p.st.disk
    /\ workers' = [workers EXCEPT ![w] =
           [@ EXCEPT !.pc = "loop", !.idx = @ + 1]]
    /\ UNCHANGED <<raceVars, loadVars, cleanVars, dispVars, promptVars, storeVars, characters, groups,
                   current_chat_id, typing_indicators, now>>

\* MessengerApp: hide_typing_indicator, and get_character_response returns.
WHide(w) ==
    /\ workers[w].pc = "hide"
    /\ typing_indicators' = SetTyping(current_chat_id, FALSE)
    /\ workers' = [workers EXCEPT ![w] = [@ EXCEPT !.pc = "Completed"]]
    /\ UNCHANGED <<raceVars, loadVars, cleanVars, dispVars, promptVars, storeVars, characters, groups, chats,
                   disk, current_chat_id, now>>

NextTurn ==
    \/ Tick
    \/ OpenChat
    \/ SendMessage
    \/ \E w \in Turns : WBegin(w)
    \/ \E w \in Turns : WMember(w)
    \/ \E w \in Turns : WResponse(w)
    \/ \E w \in Turns : WProcess(w)
    \/ \E w \in Turns : WHide(w)

Spec == InitTurn /\ [][NextTurn]_vars

\* A started worker thread is scheduled, and a request comes back (with an
\* answer or with a failure): no step of a worker is put off for ever.
WorkerStep(w) ==
    WBegin(w) \/ WMember(w) \/ WResponse(w) \/ WProcess(w) \/ WHide(w)

SpecFair == Spec /\ \A w \in Turns : WF_vars(WorkerStep(w))

(***************************************************************************)
(* Specification of build_prompt alone: a chat of up to MaxHist messages,  *)
(* at most one of them a photo, is drawn, and a prompt is built from it.   *)
(***************************************************************************)
Builders == {"MessengerApp", "ChatManager"}

Letters ==
    <<"a", "b", "c", "d", "e", "f", "g", "h", "i", "j", "k", "l", "m", "n",
      "o", "p", "q", "r", "s", "t", "u", "v", "w", "x", "y", "z">>

\* The k-th message of a drawn chat: senders take turns (the user, persona
\* a, the former persona x), the text names k; message number photoAt is a
\* photo sent by persona a.
HistoryMessage(k, photoAt) ==
    IF k = photoAt
    THEN Message(k, "a", <<>>, k, "photo",
                 PhotoPath("a", <<"s", "1", ".", "p", "n", "g">>), 0)
    ELSE Message(k, <<"user", "a", "x">>[(k % 3) + 1], <<Letters[k]>>, k,
                 "text", <<>>, 0)

Histories ==
    {[k \in 1..n |-> HistoryMessage(k, photoAt)] :
        n \in 0..MaxHist, photoAt \in 0..MaxHist}

PromptCharacters == CharactersWith(GroupPromptPlain)

InitPrompt ==
    /\ p_impl \in Builders
    /\ p_msgs \in Histories
    /\ p_out = NoPrompt
    /\ CleanIdle
    /\ DispIdle
    /\ TurnIdle
    /\ StoreIdle
    /\ LoadIdle
    /\ RaceIdle

\* build_prompt of the program for chat_id holding p_msgs, for persona a.
BuiltPrompt(chat_id, mode) ==
    LET table == [c \in {chat_id} |-> p_msgs] IN
    IF p_impl = "MessengerApp"
    THEN build_prompt(PromptCharacters, table, chat_id,
                      PromptCharacters["a"], mode,
                      IF mode = "group" THEN GroupTable["g"]
                      ELSE Group(<<>>, <<>>))
    ELSE Mgr_build_prompt(PromptCharacters, GroupTable, table, chat_id,
                          PromptCharacters["a"], mode = "group")

BuildPrivatePrompt ==
    /\ ~p_out.built
    /\ p_out' = [built |-> TRUE, mode |-> "private",
                 text |-> BuiltPrompt("a", "private").text]
    /\ UNCHANGED <<raceVars, loadVars, cleanVars, dispVars, turnVars, storeVars, p_impl, p_msgs>>

BuildGroupPrompt ==
    /\ ~p_out.built
    /\ p_out' = [built |-> TRUE, mode |-> "group",
                 text |-> BuiltPrompt("g", "group").text]
    /\ UNCHANGED <<raceVars, loadVars, cleanVars, dispVars, turnVars, storeVars, p_impl, p_msgs>>

NextPrompt == BuildPrivatePrompt \/ BuildGroupPrompt

SpecPrompt == InitPrompt /\ [][NextPrompt]_vars

(***************************************************************************)
(* Specification of the conversation store across a restart: a chat of up  *)
(* to MaxStored messages, saved, gets one more message appended and saved; *)
(* then the program is started again and loads its chat files.             *)
(***************************************************************************)
\* The k-th message of a stored chat: every fourth one a photo of persona
\* a, the others texts of the user and of persona a in turn.
StoredMessage(k) ==
    IF k % 4 = 0
    THEN Message(k, "a", <<>>, k, "photo",
                 PhotoPath("a", <<"s", "1", ".", "p", "n", "g">>), 0)
    ELSE Message(k, IF k % 2 = 1 THEN "user" ELSE "a", <<"h", "i">>, k,
                 "text", <<>>, 0)

\* The messages that get appended: a text of the user, a text reply and a
\* photo reply of persona a.
NewMessages(time) ==
    { Message(time, "user", <<"h", "i">>, time, "text", <<>>, 1),
      Message(time, "a", <<"o", "k">>, time, "text", <<>>, 1),
      Message(time, "a", <<>>, time, "photo",
              PhotoPath("a", <<"s", "1", "b", ".", "p", "n", "g">>), 1) }

\* The store of the program after saving chat_id.
Saved(st, chat_id) ==
    IF Legacy THEN save_chat_history(groups, st, chat_id)
    ELSE Mgr_save_chat_history(groups, st, chat_id)

InitStore ==
    /\ d_impl \in Dispatchers
    /\ d_config = ConfigAbsent
    /\ d_provider = ""
    /\ d_model = ""
    /\ d_last = NoCall
    /\ characters = CharactersWith(GroupPromptPlain)
    /\ groups = GroupTable
    /\ \E n \in 0..MaxStored :
           /\ chats = [c \in {"a"} |-> [k \in 1..n |-> StoredMessage(k)]]
           /\ now = n + 1
    /\ disk = Saved(Store(chats, NoFiles), "a").disk
    /\ current_chat_id = "a"
    /\ typing_indicators = [c \in {} |-> FALSE]
    /\ workers = [w \in Turns |-> IdleWorker]
    /\ s_pc = "fresh"
    /\ s_mem = <<>>
    /\ s_msg = NoMessage
    /\ CleanIdle
    /\ PromptIdle
    /\ LoadIdle
    /\ RaceIdle

\* A message is appended to the open chat and the chat is saved:
\* MessengerApp appends the dict and calls save_chat_history, ChatManager
\* does both in add_message.
StoreAppend ==
    /\ s_pc = "fresh"
    /\ \E msg \in NewMessages(now) :
           LET st == IF Legacy
                     THEN AppendAndSave(groups, Store(chats, disk),
                                        current_chat_id, msg).st
                     ELSE add_message_of(groups, Store(chats, disk),
                                         current_chat_id, msg.sender, msg.text,
                                         msg.type, msg.photo_path, now, msg.by)
           IN  /\ chats' = st.chats
               /\ disk' = st.disk
               /\ s_mem' = st.chats[current_chat_id]
               /\ s_msg' = msg
    /\ s_pc' = "appended"
    /\ UNCHANGED <<raceVars, loadVars, cleanVars, dispVars, promptVars, characters, groups,
                   current_chat_id, typing_indicators, workers, now>>

\* The program is started again: load_all_chats / _load_chats.
StoreReload ==
    /\ s_pc = "appended"
    /\ chats' = LoadChats(disk)
    /\ s_pc' = "reloaded"
    /\ UNCHANGED <<raceVars, loadVars, cleanVars, dispVars, promptVars, characters, groups, disk,
                   current_chat_id, typing_indicators, workers, now, s_mem,
                   s_msg>>

NextStore == StoreAppend \/ StoreReload

SpecStore == InitStore /\ [][NextStore]_vars

(***************************************************************************)
(* Specification of the group substitution of build_prompt alone: persona  *)
(* a's group template and the group are drawn, and the prompt of a for     *)
(* the group chat is built.                                                *)
(***************************************************************************)
\* Group templates: both fields, a field twice and in the other order, no
\* field at all, and a field format() is not given.
GroupTemplates ==
    { GroupPromptPlain,
      <<Field("members"), Lit(<<" ", "/", " ">>), Field("group_name"),
        Lit(<<"!">>), Field("members")>>,
      <<Lit(<<"p", "l", "a", "i", "n">>)>>,
      GroupPromptOtherField }

\* Groups: members known and unknown, in and against the order of the
\* persona table.
GroupTables ==
    { GroupTable,
      [c \in {"g"} |-> Group(<<"T", "e", "a", "m">>, <<"b", "a">>)],
      [c \in {"g"} |-> Group(<<"G">>, <<"x">>)] }

InitTemplate ==
    /\ p_impl \in Builders
    /\ \E n \in 0..2 : p_msgs = [k \in 1..n |-> HistoryMessage(k, 0)]
    /\ p_out = NoPrompt
    /\ characters \in {CharactersWith(t) : t \in GroupTemplates}
    /\ groups \in GroupTables
    /\ chats = NoChats
    /\ disk = NoFiles
    /\ current_chat_id = ""
    /\ typing_indicators = [c \in {} |-> FALSE]
    /\ workers = [w \in Turns |-> IdleWorker]
    /\ now = 0
    /\ CleanIdle
    /\ DispIdle
    /\ StoreIdle
    /\ LoadIdle
    /\ RaceIdle

\* build_prompt of the program for persona a in group chat g holding p_msgs.
GroupPromptOfA ==
    LET table == [c \in {"g"} |-> p_msgs] IN
    IF p_impl = "MessengerApp"
    THEN build_prompt(characters, table, "g", characters["a"], "group",
                      groups["g"])
    ELSE Mgr_build_prompt(characters, groups, table, "g", characters["a"],
                          TRUE)

BuildTemplatePrompt ==
    /\ ~p_out.built
    /\ p_out' = [built |-> TRUE,
                 mode |-> IF GroupPromptOfA.kind = "raise" THEN "fault"
                          ELSE "group",
                 text |-> GroupPromptOfA.text]
    /\ UNCHANGED <<raceVars, loadVars, cleanVars, dispVars, turnVars, storeVars, p_impl, p_msgs>>

NextTemplate == BuildTemplatePrompt

SpecTemplate == InitTemplate /\ [][NextTemplate]_vars

(***************************************************************************)
(* The personas loaded at start (SpecLoad): characters/ holds up to        *)
(* MaxFolders entries; load_characters reads them in the listed order.     *)
(***************************************************************************)

\* The ids the character.yml files of the entries give, by position.
FolderIds == <<"a", "b", "c", "d", "e">>

\* What an entry of characters/ is: a folder whose character.yml gives
\* every field, only id and name, every field but id, every field but
\* name, or an entry with no character.yml to read.
RecordKinds == {"full", "required", "no_id", "no_name", "no_file"}

CharacterKeys(kind) ==
    CASE kind = "full"     -> {"id", "name", "private_prompt", "group_prompt", "photos"}
      [] kind = "required" -> {"id", "name"}
      [] kind = "no_id"    -> {"name", "private_prompt", "group_prompt", "photos"}
      [] kind = "no_name"  -> {"id", "private_prompt", "group_prompt", "photos"}
      [] OTHER             -> {}

\* yaml.safe_load of the character.yml of persona id.
CharacterYml(id, kind) ==
    [k \in CharacterKeys(kind) |->
        CASE k = "id"             -> id
          [] k = "name"           -> <<id>>
          [] k = "private_prompt" -> <<"p">>
          [] k = "group_prompt"   -> <<"g">>
          [] OTHER                -> <<>>]

\* One entry of os.listdir(CHARACTERS_DIR).
Entry(id, kind) ==
    [folder |-> id, has_yml |-> kind # "no_file", data |-> CharacterYml(id, kind)]

Listings ==
    UNION {{[k \in 1..n |-> Entry(FolderIds[k], kinds[k])] :
               kinds \in [1..n -> RecordKinds]} : n \in 0..MaxFolders}

NoCharacters == [c \in {} |-> <<>>]

\* self.characters[id] = value
WithCharacter(personas, id, value) ==
    [c \in DOMAIN personas \cup {id} |-> IF c = id THEN value ELSE personas[c]]

\* Character(char_id=data['id'], name=data['name'], ...) of ChatManager.
MgrCharacter(data) ==
    [char_id |-> data["id"], name |-> data["name"],
     private_prompt |-> DictGet(data, "private_prompt", <<>>),
     group_prompt |-> DictGet(data, "group_prompt", <<>>),
     photos |-> DictGet(data, "photos", <<>>)]

\* Whether reading this record raises KeyError: MessengerApp subscripts
\* 'id', ChatManager 'id' and 'name'.
RaisesKeyError(legacy, data) ==
    \/ "id" \notin DOMAIN data
    \/ ~legacy /\ "name" \notin DOMAIN data

\* load_characters / _load_characters from entry k of the listing on:
\* the persona table in the end, and whether the loop was left by an
\* exception.  Nothing in the loop or in its callers catches.
RECURSIVE load_characters(_, _, _, _)
load_characters(legacy, listing, k, personas) ==
    IF k > Len(listing)
    THEN [characters |-> personas, raised |-> FALSE]
    ELSE IF ~listing[k].has_yml
    THEN load_characters(legacy, listing, k + 1, personas)
    ELSE IF RaisesKeyError(legacy, listing[k].data)
    THEN [characters |-> personas, raised |-> TRUE]
    ELSE load_characters(
             legacy, listing, k + 1,
             WithCharacter(personas, listing[k].data["id"],
                           IF legacy THEN listing[k].data
                           ELSE MgrCharacter(listing[k].data)))

InitLoad ==
    /\ d_impl \in Dispatchers
    /\ d_config = ConfigAbsent
    /\ d_provider = ""
    /\ d_model = ""
    /\ d_last = NoCall
    /\ char_files \in Listings
    /\ load_pc = "start"
    /\ group_files = [c \in {} |-> <<>>]
    /\ characters = NoCharacters
    /\ groups = GroupTable
    /\ chats = NoChats
    /\ disk = NoFiles
    /\ current_chat_id = ""
    /\ typing_indicators = [c \in {} |-> FALSE]
    /\ workers = [w \in Turns |-> IdleWorker]
    /\ now = 0
    /\ CleanIdle
    /\ PromptIdle
    /\ StoreIdle
    /\ RaceIdle

\* The constructor loads the personas.
LoadCharacters ==
    /\ load_pc = "start"
    /\ LET r == load_characters(d_impl = "MessengerAPI", char_files, 1, NoCharacters)
       IN  /\ characters' = r.characters
           /\ load_pc' = IF r.raised THEN "raised" ELSE "loaded"
    /\ UNCHANGED <<raceVars, cleanVars, dispVars, promptVars, storeVars, char_files, group_files,
                   groups, chats, disk, current_chat_id, typing_indicators, workers, now>>

NextLoad == LoadCharacters

SpecLoad == InitLoad /\ [][NextLoad]_vars

(***************************************************************************)
(* Groups loaded and created (SpecGroups).  The clock advances by half     *)
(* seconds; the program is started with its personas and groups loaded,    *)
(* the user creates groups, opens them and writes to them, and restarts    *)
(* the program.                                                            *)
(***************************************************************************)

\* f"group_{int(time.time())}": the group id made at this millisecond.
GroupIdAt(ms) ==
    <<"group_0", "group_1", "group_2", "group_3", "group_4">>[(ms \div 1000) + 1]

NoGroups == [c \in {} |-> Group(<<>>, <<>>)]

\* The persona tables load_characters leaves: a and b, and in addition a
\* persona whose character.yml gives the id "g", or the id "group_0".
PersonaTables ==
    {CharactersWith(GroupPromptPlain)}
        \cup {WithCharacter(CharactersWith(GroupPromptPlain), id,
                            Character(id, <<"C">>, <<Lit(<<"p">>)>>,
                                      GroupPromptPlain, <<>>, "claude", "m1")) :
                  id \in {"g", "group_0"}}

\* The files of groups/ at start: none, or the file of group g.
GroupFileSets == {NoGroups, GroupTable}

\* load_groups / _load_groups: the group table keyed by the id each file
\* gives.
load_groups(files) == [id \in DOMAIN files |-> Group(files[id].name, files[id].members)]

\* The order of the check boxes: characters.items().
PersonaOrder == <<"a", "b", "g", "group_0">>

\* [char_id for char_id, var in checkboxes.items() if var.get()]
SelectedMembers(personas, checked) ==
    SelectSeq(PersonaOrder, LAMBDA id : id \in DOMAIN personas /\ id \in checked)

\* What is typed into the name field of the dialog.
GroupNames == {<<"N">>, <<" ", "M", " ">>, <<" ">>}

\* The table with key id set to value.
WithGroup(grps, id, value) ==
    [c \in DOMAIN grps \cup {id} |-> IF c = id THEN value ELSE grps[c]]

\* The "create" button of the dialog, with this name typed and these
\* personas checked: the group table, the chat table, the group files and
\* the open chat afterwards.  MainWindow opens the new group.
create_group(legacy, name, checked) ==
    LET selected == SelectedMembers(characters, checked)
        group_id == GroupIdAt(now)
        group == Group(Strip(name), selected)
    IN  IF Strip(name) = <<>> \/ Len(selected) < 2
        THEN [created |-> FALSE, id |-> "", groups |-> groups, chats |-> chats,
              files |-> group_files, open |-> current_chat_id]
        ELSE [created |-> TRUE, id |-> group_id,
              groups |-> WithGroup(groups, group_id, group),
              chats |-> [c \in DOMAIN chats \cup {group_id} |->
                            IF c = group_id THEN <<>> ELSE chats[c]],
              files |-> WithGroup(group_files, group_id, group),
              open |-> IF legacy THEN current_chat_id ELSE group_id]

InitGroups ==
    /\ d_impl \in Dispatchers
    /\ d_config = ConfigFull
    /\ d_provider = IF Legacy THEN "" ELSE "claude"
    /\ d_model = IF Legacy THEN "" ELSE "m1"
    /\ d_last = NoCall
    /\ characters \in PersonaTables
    /\ group_files \in GroupFileSets
    /\ groups = load_groups(group_files)
    /\ char_files = <<>>
    /\ load_pc = "loaded"
    /\ disk = NoFiles
    /\ chats = LoadChats(disk)
    /\ current_chat_id = ""
    /\ typing_indicators = [c \in {} |-> FALSE]
    /\ workers = [w \in Turns |-> IdleWorker]
    /\ now = 0
    /\ CleanIdle
    /\ PromptIdle
    /\ StoreIdle
    /\ RaceIdle

\* Half a second passes.
HalfSecond ==
    /\ now < MaxHalfSeconds * 500
    /\ now' = now + 500
    /\ UNCHANGED <<raceVars, cleanVars, dispVars, promptVars, storeVars, loadVars, characters,
                   groups, chats, disk, current_chat_id, typing_indicators, workers>>

\* The user fills in the dialog and presses "create".
CreateGroup ==
    /\ \E name \in GroupNames, checked \in SUBSET DOMAIN characters :
           LET r == create_group(Legacy, name, checked)
           IN  /\ groups' = r.groups
               /\ chats' = r.chats
               /\ group_files' = r.files
               /\ current_chat_id' = r.open
    /\ UNCHANGED <<raceVars, cleanVars, dispVars, promptVars, storeVars, char_files, load_pc,
                   characters, disk, typing_indicators, workers, now>>

\* open_chat(chat_id) for a group of the chat list.
OpenGroupChat ==
    /\ \E c \in DOMAIN groups :
           /\ c # current_chat_id
           /\ current_chat_id' = c
    /\ UNCHANGED <<raceVars, cleanVars, dispVars, promptVars, storeVars, loadVars, characters,
                   groups, chats, disk, typing_indicators, workers, now>>

\* The program is closed, before any turn was started, and started again:
\* groups and chats are loaded from their files; MessengerApp opens the
\* chat whose file is listed first.
Restart ==
    /\ \A w \in Turns : workers[w].pc = "idle"
    /\ groups' = load_groups(group_files)
    /\ chats' = LoadChats(disk)
    /\ IF Legacy /\ DOMAIN disk # {}
       THEN current_chat_id' \in DOMAIN disk
       ELSE current_chat_id' = ""
    /\ UNCHANGED <<raceVars, cleanVars, dispVars, promptVars, storeVars, loadVars, characters,
                   disk, typing_indicators, workers, now>>

NextGroups ==
    \/ HalfSecond
    \/ CreateGroup
    \/ OpenGroupChat
    \/ SendMessage
    \/ Restart

SpecGroups == InitGroups /\ [][NextGroups]_vars

(***************************************************************************)
(* Two turns on one chat at once (SpecRace).  The user has submitted       *)
(* MaxRacers messages to private chat a, one after the other; each         *)
(* started a worker thread, and every thread has its reply.  What is left  *)
(* of each turn is recording the reply: the message is made from the       *)
(* clock, appended to the list, the last 100 messages are taken for the    *)
(* file, and the file is written.  A thread can be preempted between any   *)
(* two of these.  The write of a file is taken as one step.                *)
(***************************************************************************)
Racers == 1..MaxRacers

\* The user's k-th message, submitted and saved before the clock of this
\* specification starts.
SubmittedMessage(k) ==
    Message(k - MaxRacers - 1, "user", <<"h", "i">>, k - MaxRacers - 1,
            "text", <<>>, k)

\* The file save_chat_history writes for the chat as it is now.
SnapshotOf(chat_id) ==
    IF Legacy
    THEN save_chat_history(groups, Store(chats, NoFiles), chat_id).disk[chat_id]
    ELSE Mgr_save_chat_history(groups, Store(chats, NoFiles), chat_id).disk[chat_id]

InitRace ==
    /\ d_impl \in Dispatchers
    /\ d_config = ConfigFull
    /\ d_provider = IF Legacy THEN "" ELSE "claude"
    /\ d_model = IF Legacy THEN "" ELSE "m1"
    /\ d_last = NoCall
    /\ characters = CharactersWith(GroupPromptPlain)
    /\ groups = GroupTable
    /\ chats = [c \in {"a"} |-> [k \in Racers |-> SubmittedMessage(k)]]
    /\ disk = [c \in {"a"} |-> SnapshotOf("a")]
    /\ current_chat_id = "a"
    /\ typing_indicators = [c \in {} |-> FALSE]
    /\ workers = [w \in Turns |-> IdleWorker]
    /\ now = 0
    /\ racers = [t \in Racers |-> [pc |-> "reply", msg |-> NoMessage,
                                    file |-> ChatFile("private", "", <<>>)]]
    /\ CleanIdle
    /\ PromptIdle
    /\ StoreIdle
    /\ LoadIdle

\* A millisecond passes.
RaceTick ==
    /\ now < MaxRaceClock
    /\ now' = now + 1
    /\ UNCHANGED <<cleanVars, dispVars, promptVars, storeVars, loadVars, raceVars,
                   characters, groups, chats, disk, current_chat_id,
                   typing_indicators, workers>>

\* The message is made: its id and timestamp are read from the clock.
RMake(t) ==
    /\ racers[t].pc = "reply"
    /\ racers' = [racers EXCEPT ![t] =
           [@ EXCEPT !.pc = "made",
                     !.msg = Message(now, "a", <<"o", "k">>, now, "text",
                                     <<>>, t)]]
    /\ UNCHANGED <<cleanVars, dispVars, promptVars, storeVars, loadVars, turnVars>>

\* self.chats[chat_id].append(msg)
RAppend(t) ==
    /\ racers[t].pc = "made"
    /\ chats' = [chats EXCEPT !["a"] = Append(@, racers[t].msg)]
    /\ racers' = [racers EXCEPT ![t] = [@ EXCEPT !.pc = "appended"]]
    /\ UNCHANGED <<cleanVars, dispVars, promptVars, storeVars, loadVars, characters,
                   groups, disk, current_chat_id, typing_indicators, workers, now>>

\* save_chat_history: the last 100 messages of the list are taken.
RSnapshot(t) ==
    /\ racers[t].pc = "appended"
    /\ racers' = [racers EXCEPT ![t] =
           [@ EXCEPT !.pc = "taken", !.file = SnapshotOf("a")]]
    /\ UNCHANGED <<cleanVars, dispVars, promptVars, storeVars, loadVars, turnVars>>

\* save_chat_history: the file is opened for writing and dumped.
RWrite(t) ==
    /\ racers[t].pc = "taken"
    /\ disk' = WriteFile(disk, "a", racers[t].file)
    /\ racers' = [racers EXCEPT ![t] = [@ EXCEPT !.pc = "done"]]
    /\ UNCHANGED <<cleanVars, dispVars, promptVars, storeVars, loadVars, characters,
                   groups, chats, current_chat_id, typing_indicators, workers, now>>

NextRace ==
    \/ RaceTick
    \/ \E t \in Racers : RMake(t)
    \/ \E t \in Racers : RAppend(t)
    \/ \E t \in Racers : RSnapshot(t)
    \/ \E t \in Racers : RWrite(t)

SpecRace == InitRace /\ [][NextRace]_vars

(***************************************************************************)
(* Claims about the normalizer (checked under SpecClean).                  *)
(***************************************************************************)

\* The marker each cleaner returns for an empty raw text, and the one it
\* returns when nothing is left after cutting and trimming.
EmptyMarkOf(impl) ==
    IF impl = "MessengerAPI" THEN EmptyResponseText ELSE AnswerEmptyText

BlankMarkOf(impl) ==
    IF impl = "MessengerAPI" THEN EmptyAfterCleaningText ELSE AnswerEmptyText

HasCutTag(text) == \E i \in 1..Len(cut_tags) : Contains(text, cut_tags[i])

\* C1: normalizer idempotence. Applying the cleaner to its own output gives
\* that output back: normalize(normalize(T)) = normalize(T), for the empty
\* text, blank text and text with any combination of cut markers.
C1_Idempotent ==
    Len(cl_outs) = 2 => cl_outs[2] = cl_outs[1]

\* C1 witness: the cleaner has been applied twice to a text with a cut marker
\* and surrounding whitespace, and the first application changed the text.
C1_Witness ==
    /\ Len(cl_outs) = 2
    /\ HasCutTag(cl_raw)
    /\ cl_outs[1] # cl_raw
    /\ cl_outs[1] \notin {EmptyMarkOf(cl_impl), BlankMarkOf(cl_impl)}
    /\ Len(cl_outs[1]) + 3 < Len(cl_raw)

\* C2: the empty-response marker is returned exactly when the raw text is
\* empty; a raw text that is non-empty but blank after cutting and trimming
\* gets a different marker, so the two markers are never the same string.
\* (The empty-response marker of a cleaner is what it returns for "".)
C2_DistinctMarkers ==
    Len(cl_outs) >= 1 =>
        ((cl_outs[1] = Clean(cl_impl, <<>>)) <=> (cl_raw = <<>>))

\* The 1-based start of the earliest occurrence of any cut marker in text,
\* Len(text) + 1 if there is none.
EarliestCut(text) ==
    LET ps == {Find(text, cut_tags[i]) : i \in 1..Len(cut_tags)} \ {0}
    IN  IF ps = {} THEN Len(text) + 1
        ELSE CHOOSE p \in ps : \A q \in ps : p <= q

\* Every order in which the fixed marker list can be applied.
TagOrders ==
    {o \in [1..Len(cut_tags) -> 1..Len(cut_tags)] :
        \A i, j \in 1..Len(cut_tags) : i # j => o[i] # o[j]}

Reordered(o) == [i \in 1..Len(cut_tags) |-> cut_tags[o[i]]]

\* C3: for a non-empty raw text the output holds no cut marker and is the
\* trimmed prefix that precedes the earliest occurrence of any cut marker
\* (or the empty-after-cleaning marker if that prefix is blank), and every
\* order of applying the marker list gives the same output.
C3_TruncatesAtEarliestMarker ==
    (Len(cl_outs) = 1 /\ cl_raw # <<>>) =>
        LET out    == cl_outs[1]
            prefix == Strip(SubSeq(cl_raw, 1, EarliestCut(cl_raw) - 1))
        IN  /\ ~HasCutTag(out)
            /\ out = (IF prefix # <<>> THEN prefix ELSE BlankMarkOf(cl_impl))
            /\ \A o \in TagOrders :
                   CleanWith(cl_raw, Reordered(o), EmptyMarkOf(cl_impl),
                             BlankMarkOf(cl_impl)) = out

\* C3 witness: a raw text holding two different cut markers, the later-listed
\* one first in the text, has been cleaned to a non-blank prefix.
C3_Witness ==
    /\ Len(cl_outs) = 1
    /\ Contains(cl_raw, cut_tags[3])
    /\ Contains(cl_raw, cut_tags[5])
    /\ Find(cl_raw, cut_tags[5]) < Find(cl_raw, cut_tags[3])
    /\ cl_outs[1] = <<"H", "i">>

(***************************************************************************)
(* Claims about the dispatchers (checked under SpecDispatch).              *)
(***************************************************************************)

\* The texts by which a dispatcher reports that the provider is not usable
\* as configured.
ConfigurationErrorTexts(p) ==
    { T_ProviderNotFoundPre \o ProviderText(p) \o T_ProviderNotFoundPost,
      T_ProviderNotFoundPre \o ProviderText(p) \o T_NotSupportedPost,
      T_MgrProviderPre \o ProviderText(p) \o T_MgrNotSupportedPost,
      T_NotSelected }

\* C4: a dispatch for a provider name that is no key of the loaded provider
\* mapping (every name, when the file is absent) returns a configuration
\* error and makes no SDK call and no HTTP request.
C4_UnknownProviderNoCall ==
    (  /\ d_last.called
       /\ ~d_config.isNone
       /\ d_last.provider \notin ConfigKeys(d_config) )
    => /\ d_last.kind = "return"
       /\ d_last.text \in ConfigurationErrorTexts(d_last.provider)
       /\ d_last.calls = <<>>

\* C5: send_message never raises to its caller: whatever the provider, the
\* loaded configuration and the transport outcome, it returns a text.
C5_NeverRaises ==
    d_last.called => d_last.kind = "return"

(***************************************************************************)
(* Claims about a turn (checked under Spec).                               *)
(***************************************************************************)

\* Where (chat, position) the replies of turn w stand: the messages its
\* worker appended, the user's submitted message excluded.
ReplyPlaces(w) ==
    {p \in UNION {{<<c, k>> : k \in 1..Len(chats[c])} : c \in DOMAIN chats} :
        /\ chats[p[1]][p[2]].by = w
        /\ chats[p[1]][p[2]].sender # "user"}

PlaceMessage(p) == chats[p[1]][p[2]]

\* Position of a member in a duplicate-free member list (0: not in it).
PositionIn(members, m) ==
    IF \E i \in 1..Len(members) : members[i] = m
    THEN CHOOSE i \in 1..Len(members) : members[i] = m
    ELSE 0

\* The members of a list that are personas, in list order.
KnownMembers(members) ==
    SelectSeq(members, LAMBDA m : m \in DOMAIN characters)

\* C6: within one group turn the replies the turn appended to a chat stand
\* in the relative order of their senders in the group's stored member
\* list, and every member contributed at most one message in the turn.
C6_RepliesInMemberOrder ==
    \A w \in Turns :
        workers[w].mode = "group" =>
            /\ \A p, q \in ReplyPlaces(w) :
                   (p[1] = q[1] /\ p[2] < q[2]) =>
                       PositionIn(workers[w].members, PlaceMessage(p).sender)
                           < PositionIn(workers[w].members,
                                        PlaceMessage(q).sender)
            /\ \A p, q \in ReplyPlaces(w) :
                   PlaceMessage(p).sender = PlaceMessage(q).sender => p = q

\* A group turn has put the replies of two members into one chat.
C6_Witness ==
    \E w \in Turns :
        /\ workers[w].mode = "group"
        /\ \E p, q \in ReplyPlaces(w) :
               /\ p[1] = q[1]
               /\ p[2] < q[2]
               /\ PlaceMessage(p).sender = "a"
               /\ PlaceMessage(q).sender = "b"

\* C7: in a group turn no fault while building, dispatching or recording
\* one member's reply keeps the remaining members from being dispatched:
\* when the turn has ended, a request was sent for every known member of
\* the group, in list order.
C7_EveryKnownMemberDispatched ==
    \A w \in Turns :
        (workers[w].mode = "group" /\ workers[w].pc \in {"Completed", "Failed"})
            => [i \in 1..Len(workers[w].dispatched) |->
                   workers[w].dispatched[i].member]
                   = KnownMembers(workers[w].members)

\* Every known member of the group of turn w has answered, and every
\* normalized reply contains [IGNORE].
AllIgnored(w) ==
    /\ workers[w].mode = "group"
    /\ Len(workers[w].replies) = Len(KnownMembers(workers[w].members))
    /\ Len(workers[w].replies) >= 2
    /\ \A i \in 1..Len(workers[w].replies) :
           /\ workers[w].replies[i].kind = "return"
           /\ Contains(workers[w].replies[i].text, IgnoreTag)

\* C8: if every member's normalized reply in a group turn contains
\* [IGNORE], the turn appends no message besides the user's, does not
\* fail, and is Completed or has a step left that it can take.
C8_AllIgnoredCompletes ==
    \A w \in Turns :
        AllIgnored(w) =>
            /\ ReplyPlaces(w) = {}
            /\ workers[w].pc # "Failed"
            /\ \/ workers[w].pc = "Completed"
               \/ ENABLED (WMember(w) \/ WHide(w))

\* A group turn in which both members answered [IGNORE] is Completed.
C8_Witness ==
    \E w \in Turns : AllIgnored(w) /\ workers[w].pc = "Completed"

\* The messages turn w appended for its i-th reply: in a private turn all
\* it appended, in a group turn those sent by the replying member.
PlacesOfReply(w, i) ==
    {p \in ReplyPlaces(w) :
        \/ workers[w].mode = "private"
        \/ PlaceMessage(p).sender = workers[w].replies[i].member}

\* The photos of a persona whose filename contains the token.
PhotosMatching(member, token) ==
    {k \in 1..Len(characters[member].photos) :
        Contains(characters[member].photos[k].filename, token)}

\* C9: when a reply holds a photo directive [PHOTO:<token>], a finished
\* turn has appended for it exactly one message, a photo referencing the
\* first asset whose filename contains <token>, and no text message; or no
\* message at all if no filename contains <token>.
C9_PhotoDirectiveResolved ==
    \A w \in Turns :
        workers[w].pc = "Completed" =>
            \A i \in 1..Len(workers[w].replies) :
                LET r == workers[w].replies[i]
                    found == PhotosMatching(r.member, PhotoToken(r.text))
                IN  (  /\ r.kind = "return"
                       /\ ~(workers[w].mode = "group" /\ Contains(r.text, IgnoreTag))
                       /\ PhotoToken(r.text) # <<>> )
                    => IF found = {}
                       THEN PlacesOfReply(w, i) = {}
                       ELSE /\ Cardinality(PlacesOfReply(w, i)) = 1
                            /\ \A p \in PlacesOfReply(w, i) :
                                   /\ PlaceMessage(p).type = "photo"
                                   /\ PlaceMessage(p).photo_path =
                                          PhotoPath(
                                              r.member,
                                              characters[r.member].photos[
                                                  CHOOSE k \in found :
                                                      \A j \in found : k <= j
                                              ].filename)

(***************************************************************************)
(* Claims about build_prompt (checked under SpecPrompt).                   *)
(***************************************************************************)
RECURSIVE SplitLines(_)
\* The non-empty lines of a text.
SplitLines(s) ==
    IF s = <<>> THEN <<>>
    ELSE LET k == Find(s, <<"\n">>)
         IN  IF k = 0 THEN <<s>>
             ELSE (IF k = 1 THEN <<>> ELSE <<SubSeq(s, 1, k - 1)>>)
                      \o SplitLines(SubSeq(s, k + 1, Len(s)))

\* The history lines of a prompt: what stands between the history header
\* and the closing instruction.
PromptHistoryLines(text) ==
    LET from == Find(text, HistoryHeader) + Len(HistoryHeader)
        upto == Find(text, SubSeq(AnswerLastText, 1, Len(AnswerLastText) - 1))
    IN  SplitLines(SubSeq(text, from, upto - 1))

\* A history line shows this message: it names its sender and, for a text
\* message, gives its text.
Exposes(line, msg) ==
    LET head == SenderName(PromptCharacters, msg.sender) \o <<":", " ">>
    IN  /\ MatchAt(line, head, 1)
        /\ msg.type = "text" => line = head \o msg.text

\* C10: for a chat of n messages the prompt shows exactly the most recent
\* min(n, 15) messages, in append order: one history line per message of
\* that window, none for an older message.
C10_PromptShowsRecentWindow ==
    p_out.built =>
        LET lines == PromptHistoryLines(p_out.text)
            window == LastN(p_msgs, MAX_MESSAGES_FOR_API)
        IN  /\ Len(lines) = Len(window)
            /\ \A i \in 1..Len(lines) : Exposes(lines[i], window[i])

(***************************************************************************)
(* Claims about the conversation store.                                    *)
(***************************************************************************)
\* Two messages agree in every field the program has.
SameMessage(m1, m2) ==
    /\ m1.id = m2.id
    /\ m1.sender = m2.sender
    /\ m1.text = m2.text
    /\ m1.timestamp = m2.timestamp
    /\ m1.type = m2.type
    /\ m1.photo_path = m2.photo_path

SameMessages(s1, s2) ==
    /\ Len(s1) = Len(s2)
    /\ \A i \in 1..Len(s1) : SameMessage(s1[i], s2[i])

\* C11: persistence round trip.  After a message M is appended to a chat
\* of n messages, the chat is flushed and then loaded again from its file,
\* the loaded list is the most recent min(n + 1, 100) messages in the same
\* order, equal in id, sender, text, timestamp, kind and photo reference,
\* and its last element is M.
C11_RoundTrip ==
    s_pc = "reloaded" =>
        LET loaded == chats[current_chat_id]
            n == Len(s_mem) - 1
        IN  /\ Len(loaded) = IF n + 1 <= 100 THEN n + 1 ELSE 100
            /\ SameMessages(loaded, LastN(s_mem, Len(loaded)))
            /\ SameMessage(loaded[Len(loaded)], s_msg)

\* A photo message was appended to a chat of more than 100 messages, and
\* the chat was loaded again.
C11_Witness ==
    /\ s_pc = "reloaded"
    /\ Len(s_mem) > 101
    /\ s_msg.type = "photo"
    /\ Len(chats[current_chat_id]) = 100

\* No turn is running: every worker is idle or has ended.
NoTurnRunning ==
    \A w \in Turns : workers[w].pc \in {"idle", "Completed", "Failed"}

\* The durable record of a chat is the last 100 messages it holds in memory.
Durable(c) ==
    SameMessages(load_chat_history(disk, c),
                 LastN(chats[c], MAX_MESSAGES_IN_HISTORY))

\* C12: every append to a chat in memory is followed by a flush of that
\* chat before the appending operation returns, so that at the end of
\* every turn the durable record of each chat equals the last 100 messages
\* of its sequence in memory.
C12_DurableAtTurnEnd ==
    NoTurnRunning => \A c \in DOMAIN chats : Durable(c)

(***************************************************************************)
(* Claims about the group substitution (checked under SpecTemplate).       *)
(***************************************************************************)
RECURSIVE ReplaceAll(_, _, _)
\* text with every occurrence of old replaced by new, left to right.
ReplaceAll(text, old, new) ==
    LET k == Find(text, old)
    IN  IF k = 0 THEN text
        ELSE SubSeq(text, 1, k - 1) \o new
                 \o ReplaceAll(SubSeq(text, k + Len(old), Len(text)), old, new)

\* Display name of a group member: the persona's name, or the raw id.
DisplayName(m) ==
    IF m \in DOMAIN characters THEN characters[m].name ELSE <<m>>

RECURSIVE DisplayNames(_)
\* The display names of the members joined with ', '.
DisplayNames(members) ==
    IF members = <<>> THEN <<>>
    ELSE IF Len(members) = 1 THEN DisplayName(members[1])
    ELSE DisplayName(members[1]) \o <<",", " ">> \o DisplayNames(Tail(members))

\* The system part of a prompt: what stands before the history header.
SystemPart(text) ==
    SubSeq(text, 1, Find(text, <<"\n", "\n">> \o HistoryHeader) - 1)

\* C13: for a group chat the system part of the prompt is the persona's
\* group template with {group_name} replaced by the group's name and
\* {members} by the display names of the members joined with ', ' in
\* stored member order, the raw id standing for an unknown member.
C13_GroupSubstitution ==
    (p_out.built /\ p_out.mode = "group") =>
        SystemPart(p_out.text) =
            ReplaceAll(
                ReplaceAll(TemplateText(characters["a"].group_prompt),
                           <<"{">> \o FieldText("group_name") \o <<"}">>,
                           groups["g"].name),
                <<"{">> \o FieldText("members") \o <<"}">>,
                DisplayNames(groups["g"].members))

\* A prompt was built from a template with both fields for a group with
\* an unknown member.
C13_Witness ==
    /\ p_out.built
    /\ p_out.mode = "group"
    /\ characters["a"].group_prompt = GroupPromptPlain
    /\ groups = GroupTable
    /\ SystemPart(p_out.text) =
           <<"i", "n", " ", "G", " ", "w", "i", "t", "h", " ", "A", ",", " ",
             "x", ",", " ", "B">>

(***************************************************************************)
(* More claims about a turn (checked under Spec).                          *)
(***************************************************************************)
\* The template names a replacement field other than the two format() is
\* given.
HasOtherField(t) ==
    \E i \in 1..Len(t) : t[i].field \notin {"", "group_name", "members"}

\* C14: a group template that references a placeholder other than
\* {group_name} and {members} does not crash the turn: the turn ends
\* Completed, a request was sent for every known member, and the prompt
\* of a member with such a template has the unsubstituted template text
\* as its system part.
C14_TemplateFaultFallsBack ==
    \A w \in Turns :
        (workers[w].mode = "group" /\ workers[w].pc \in {"Completed", "Failed"})
            => LET known == KnownMembers(workers[w].members)
                   sent == workers[w].dispatched
               IN  /\ workers[w].pc = "Completed"
                   /\ Len(sent) = Len(known)
                   /\ \A i \in 1..Len(sent) :
                          /\ sent[i].member = known[i]
                          /\ HasOtherField(characters[known[i]].group_prompt)
                                 => SystemPart(sent[i].prompt) =
                                        TemplateText(
                                            characters[known[i]].group_prompt)

\* C15: in a private chat with a known persona a submitted user message
\* results in exactly one dispatch call and exactly one reply message,
\* appended to that chat with that persona as its sender, and the chat is
\* flushed after the append.
C15_PrivateTurnOneReply ==
    \A w \in Turns :
        (  /\ workers[w].mode = "private"
           /\ workers[w].chat0 \in DOMAIN characters
           /\ workers[w].pc \in {"Completed", "Failed"} )
        => /\ Len(workers[w].dispatched) = 1
           /\ Cardinality(ReplyPlaces(w)) = 1
           /\ \A p \in ReplyPlaces(w) :
                  /\ p[1] = workers[w].chat0
                  /\ PlaceMessage(p).sender = workers[w].chat0
           /\ Durable(workers[w].chat0)

\* The text holds nothing but white space.
IsBlank(text) == \A i \in 1..Len(text) : text[i] \in Whitespace

\* C16: a submission whose text is empty after trimming, or made while no
\* chat is open, leaves the messages of every chat in memory and every
\* chat file unchanged and starts no worker; any other submission appends
\* exactly one text message with sender 'user' to the open chat, leaves
\* the other chats alone, flushes the open chat and starts the worker.
C16_SubmissionValidated ==
    \A input \in InputTexts, w \in Turns :
        LET r == Submit(input, w)
            c == current_chat_id
            before == IF c \in DOMAIN chats THEN chats[c] ELSE <<>>
        IN  IF IsBlank(input) \/ c = ""
            THEN /\ r.st.chats = chats
                 /\ r.st.disk = disk
                 /\ ~r.started
            ELSE /\ r.started
                 /\ DOMAIN r.st.chats = DOMAIN chats \cup {c}
                 /\ \A k \in DOMAIN chats \ {c} : r.st.chats[k] = chats[k]
                 /\ Len(r.st.chats[c]) = Len(before) + 1
                 /\ SubSeq(r.st.chats[c], 1, Len(before)) = before
                 /\ r.st.chats[c][Len(before) + 1].sender = "user"
                 /\ r.st.chats[c][Len(before) + 1].type = "text"
                 /\ ~IsBlank(r.st.chats[c][Len(before) + 1].text)
                 /\ DOMAIN r.st.disk = DOMAIN disk \cup {c}
                 /\ \A k \in DOMAIN disk \ {c} : r.st.disk[k] = disk[k]
                 /\ SameMessages(load_chat_history(r.st.disk, c),
                                 LastN(r.st.chats[c], MAX_MESSAGES_IN_HISTORY))

\* A submission was accepted: its worker is started, and the chat ends
\* with the user's message, in memory and in the chat file.
C16_Witness ==
    \E w \in Turns :
        /\ workers[w].pc = "start"
        /\ chats[workers[w].chat0][Len(chats[workers[w].chat0])].sender = "user"
        /\ chats[workers[w].chat0][Len(chats[workers[w].chat0])].by = w
        /\ Durable(workers[w].chat0)

\* C17: within each chat no two messages carry the same id, also when two
\* messages are appended within the same millisecond of the clock.
C17_MessageIdsUnique ==
    \A c \in DOMAIN chats :
        \A i, j \in 1..Len(chats[c]) :
            chats[c][i].id = chats[c][j].id => i = j

\* C18: the sender of every message of every chat is 'user' or the id of a
\* persona, never the id of a group, whatever chats are opened during turns.
C18_SenderIsUserOrPersona ==
    \A c \in DOMAIN chats :
        \A i \in 1..Len(chats[c]) :
            chats[c][i].sender \in {"user"} \cup DOMAIN characters

\* A character.yml that gives both required fields.
WellFormed(data) == "id" \in DOMAIN data /\ "name" \in DOMAIN data

\* C19: loading the personas is fault-isolated per record: when a record
\* lacks id or name, loading still completes, every well-formed record is
\* in the persona table afterwards, and a record lacking a required field
\* is not.
C19_LoadIsolatesFaults ==
    load_pc # "start" /\ char_files # <<>> =>
        /\ load_pc = "loaded"
        /\ \A k \in 1..Len(char_files) :
               char_files[k].has_yml =>
                   (WellFormed(char_files[k].data)
                       <=> FolderIds[k] \in DOMAIN characters)

\* What a dispatcher returns when a transport cannot be used as configured:
\* the credential is not given, or the SDK package is not installed.
MissingCredentialTexts ==
    {T_NoClaudeKey, T_NoGeminiKey, T_NoAnthropic, T_NoGenai, T_NoOpenai}

\* C20: a dispatch for a provider whose configured credential is empty
\* returns a configuration error, which no transport failure produces,
\* and hands no request to an SDK or to HTTP.
C20_EmptyCredentialNoCall ==
    (  /\ d_last.called
       /\ ~d_config.isNone
       /\ d_last.provider \in ConfigKeys(d_config)
       /\ d_config.data[d_last.provider].key = "" )
    => /\ d_last.kind = "return"
       /\ d_last.calls = <<>>
       /\ d_last.text \in MissingCredentialTexts
                              \cup ConfigurationErrorTexts(d_last.provider)

\* C24: the model named in every request a dispatch hands to an SDK or to
\* HTTP is the model the dispatch was given (the persona's configured
\* model, the selected model), for every provider.
C24_RequestNamesGivenModel ==
    d_last.called =>
        \A i \in 1..Len(d_last.calls) : d_last.calls[i].model = d_last.model

\* The transport failed: send_message raised, or returned the text it
\* returns when the request fails.
DispatchFailed(reply) ==
    \/ reply.kind = "raise"
    \/ \E env \in TurnEnvs :
           /\ env.resp.kind = "error"
           /\ reply.text = SendFor(characters[reply.member], env).text

\* The messages turn w appended for this persona in the error form
\* "[Ошибка API: ...]".
ErrorPlaces(w, member) ==
    {p \in ReplyPlaces(w) :
        /\ PlaceMessage(p).sender = member
        /\ PlaceMessage(p).type = "text"
        /\ MatchAt(PlaceMessage(p).text, ApiErrorOpen, 1)}

\* C21: every dispatch failure of a turn, private or group, leaves exactly
\* one text message whose sender is the persona asked and whose text has
\* the error form "[Ошибка API: ...]"; the persona's failed reply is stored
\* in no other form and is not dropped.
C21_FailureStoredAsError ==
    \A w \in Turns :
        workers[w].pc \in {"Completed", "Failed"} =>
            \A i \in 1..Len(workers[w].replies) :
                DispatchFailed(workers[w].replies[i]) =>
                    /\ Cardinality(ErrorPlaces(w, workers[w].replies[i].member)) = 1
                    /\ \A p \in ReplyPlaces(w) :
                           PlaceMessage(p).sender = workers[w].replies[i].member
                               => p \in ErrorPlaces(w, workers[w].replies[i].member)

\* MessengerApp.typing_indicators shows nobody typing in this chat.
TypingCleared(c) ==
    c \notin DOMAIN typing_indicators \/ ~typing_indicators[c]

\* C22: every turn whose worker has started eventually reaches Completed
\* with the typing indicator of the chat it was started in cleared, whether
\* members answer, ignore or fail, whether building a prompt faults, and
\* whichever chat is opened meanwhile.
C22_TurnCompletes ==
    \A w \in Turns :
        (workers[w].pc = "start")
            ~> (workers[w].pc = "Completed" /\ TypingCleared(workers[w].chat0))

(***************************************************************************)
(* Claims about groups (checked under SpecGroups).                         *)
(***************************************************************************)

\* C23: after any sequence of loads and group creations no id is both the
\* id of a persona and the id of a group, so that a chat id is a private
\* chat or a group chat and never both.
C23_NamespacesDisjoint ==
    DOMAIN characters \cap DOMAIN groups = {}

\* The dialog's input is accepted: a name is left after trimming and at
\* least two personas are checked.
ValidGroupInput(name, checked) ==
    /\ \E i \in 1..Len(name) : name[i] \notin Whitespace
    /\ Cardinality(checked) >= 2

\* C30: creating a group gives it an id no group has yet, so that no
\* group is replaced and no chat loses its messages, also when another
\* group was created within the same second of the clock; afterwards the
\* new id is a group with the chosen members, in order, and an empty chat.
C30_CreateGroupFreshId ==
    \A name \in GroupNames, checked \in SUBSET DOMAIN characters :
        ValidGroupInput(name, checked) =>
            LET r == create_group(Legacy, name, checked)
            IN  /\ r.created
                /\ r.id \notin DOMAIN groups
                /\ \A c \in DOMAIN groups : r.groups[c] = groups[c]
                /\ \A c \in DOMAIN chats : r.chats[c] = chats[c]
                /\ r.id \in DOMAIN r.groups
                /\ r.groups[r.id].members = SelectedMembers(characters, checked)
                /\ r.chats[r.id] = <<>>

(***************************************************************************)
(* Claims about photo messages in the prompt (checked under SpecPrompt).   *)
(***************************************************************************)

\* The line a photo message stands for: "<name>: [отправил(а) фото]".
PhotoLine(msg) ==
    (IF msg.sender = "user" THEN UserName
     ELSE IF msg.sender \in DOMAIN PromptCharacters
     THEN PromptCharacters[msg.sender].name
     ELSE <<msg.sender>>)
        \o <<":", " ">> \o PhotoSentText

\* C25: every photo message of the history window is one line of the
\* prompt, "<name>: [отправил(а) фото]", at the place of the message, so
\* that the prompt has as many history lines as the window has messages.
C25_PhotoHasHistoryLine ==
    p_out.built =>
        LET lines == PromptHistoryLines(p_out.text)
            window == LastN(p_msgs, MAX_MESSAGES_FOR_API)
        IN  /\ Len(lines) = Len(window)
            /\ \A i \in 1..Len(window) :
                   window[i].type = "photo" => lines[i] = PhotoLine(window[i])

(***************************************************************************)
(* Claims about turns running at the same time (checked under SpecRace).   *)
(***************************************************************************)

\* Ids and timestamps do not decrease along any chat.
IdsInOrder ==
    \A c \in DOMAIN chats :
        \A i, j \in 1..Len(chats[c]) :
            i < j => /\ chats[c][i].id <= chats[c][j].id
                     /\ chats[c][i].timestamp <= chats[c][j].timestamp

\* A step keeps every chat and every message of it, unchanged and in
\* place, and puts new messages behind them.
AppendOnly ==
    \A c \in DOMAIN chats :
        /\ c \in DOMAIN chats'
        /\ Len(chats'[c]) >= Len(chats[c])
        /\ SubSeq(chats'[c], 1, Len(chats[c])) = chats[c]

\* C26: each chat is in creation order at all times: no step removes,
\* moves or changes a message, new messages are added at the end only, and
\* ids and timestamps do not decrease along the chat, also when two turns
\* on the same chat run at once.
C26_CreationOrder == []IdsInOrder /\ [][AppendOnly]_vars

\* C28: when two turns on one chat ran at once and both workers are done,
\* the chat file holds the last 100 messages of the chat in memory, in
\* order, however the workers' appends and saves were interleaved.
C28_DurableAfterRace ==
    (\A t \in Racers : racers[t].pc = "done") => Durable("a")

(***************************************************************************)
(* Claims about the chat a turn works on (checked under Spec).             *)
(***************************************************************************)

\* The prompt for this persona built from the history of chat c, as the
\* type of c asks for.
PromptFrom(c, member) ==
    IF Legacy
    THEN build_prompt(characters, chats, c, characters[member],
                      IF c \in DOMAIN groups THEN "group" ELSE "private",
                      IF c \in DOMAIN groups THEN groups[c]
                      ELSE Group(<<>>, <<>>))
    ELSE Mgr_build_prompt(characters, groups, chats, c, characters[member],
                          c \in DOMAIN groups)

\* The request of turn w that is under way.
Awaited(w) == workers[w].dispatched[Len(workers[w].dispatched)]

\* C27: every reply of a turn is appended to the chat the turn's user
\* message was submitted to, and the prompt of every request of the turn
\* is built from that chat's history, whichever chat is opened while the
\* worker runs.
C27_TurnStaysInItsChat ==
    \A w \in Turns :
        /\ \A p \in ReplyPlaces(w) : p[1] = workers[w].chat0
        /\ workers[w].pc = "await" =>
               /\ PromptFrom(workers[w].chat0, Awaited(w).member).kind = "return"
               /\ Awaited(w).prompt
                      = PromptFrom(workers[w].chat0, Awaited(w).member).text

\* C29: in a group turn the prompt for a member is built after the
\* replies of the members before it were appended: it has a history line
\* for the user's message of the turn and for every reply the turn has
\* appended so far.
C29_PromptHoldsEarlierReplies ==
    \A w \in Turns :
        (workers[w].pc = "await" /\ workers[w].mode = "group") =>
            \A c \in DOMAIN chats :
                \A k \in 1..Len(chats[c]) :
                    chats[c][k].by = w =>
                        \E i \in 1..Len(PromptHistoryLines(Awaited(w).prompt)) :
                            Exposes(PromptHistoryLines(Awaited(w).prompt)[i],
                                    chats[c][k])

====
